---- MODULE Spec2Model ----
(***************************************************************************)
(* Model of the self-learning stock module (src/stock_learner.py): the     *)
(* persisted memory store and the operations that read, mutate and write   *)
(* it.                                                                     *)
(*                                                                         *)
(* Units.  Sentiments and percent changes are the code's 3-decimal floats  *)
(* held as integers in thousandths (0.5 is 500).  Confidence is the code's *)
(* 1-decimal float held in tenths (85 is 850).  Dates are the code's       *)
(* "%Y-%m-%d" strings held as day numbers: the strings are fixed-width and *)
(* zero-padded, so the code's string comparisons order them as the day     *)
(* numbers do.                                                             *)
(***************************************************************************)
EXTENDS Integers, Sequences, FiniteSets, TLC

VARIABLES
    mem,        \* the content of memory.json (the persisted memory store)
    today,      \* the day datetime.now() reports
    lastOp,     \* the last completed call and what it returned
    pc,         \* per caller: where it stands between its load and its save
    local,      \* per caller: the `memory` dict it holds between load and save
    call,       \* per caller: the call in progress and its arguments
    missed,     \* per caller: what others saved since this caller last loaded
    lastSaver,  \* the caller whose save_memory wrote the file last
    fnIn,       \* input of the pure-function specifications
    fnOut       \* their result

vars == <<mem, today, lastOp, pc, local, call, missed, lastSaver, fnIn, fnOut>>

(***************************************************************************)
(* Bounds of the model.                                                    *)
(***************************************************************************)
\* the clock runs over days 1..MaxDay
MaxDay == 4
\* length of stock_history[symbol] that record_stock_data keeps (365 in the code)
HistoryCap == 3
\* length of predictions_log that predict_movement keeps (500 in the code)
LogCap == 1
\* news observations the store holds at most: record_news_sentiment is not called beyond
MaxNews == 1
\* largest data_points and impact score (thousandths) given to the confidence formula
MaxDataPoints == 64
MaxImpact == 520

\* days of news that record_news_sentiment keeps
NewsWindow == 365

Symbols == {"A"}
Days == 1..MaxDay

\* change_pct arguments, in units of 0.0001 percent (before round(change_pct, 3))
ChangeInputs == {-10004, 10004}
\* price arguments, in units of 0.001 (before round(price, 2))
PriceInputs == {100004}
\* headlines, as the number of tokens matching POSITIVE_WORDS and NEGATIVE_WORDS
Headlines == {[pos |-> 1, neg |-> 0]}
\* the headline lists given to record_news_sentiment
HeadlineLists == {<<>>} \cup {<<h>> : h \in Headlines}

(***************************************************************************)
(* Arithmetic.                                                             *)
(***************************************************************************)
Abs(x) == IF x < 0 THEN -x ELSE x
Min(a, b) == IF a <= b THEN a ELSE b

\* Python round(n/d, k) on the exact quotient: nearest, ties to even (d > 0)
RoundDiv(n, d) ==
    LET q == n \div d
        r == n % d
    IN  IF 2 * r < d THEN q
        ELSE IF 2 * r > d THEN q + 1
        ELSE IF q % 2 = 0 THEN q ELSE q + 1

RECURSIVE SeqSum(_)
SeqSum(s) == IF s = <<>> THEN 0 ELSE Head(s) + SeqSum(Tail(s))

\* the last n elements of s: s[-n:] for n > 0
LastN(s, n) == IF Len(s) <= n THEN s ELSE SubSeq(s, Len(s) - n + 1, Len(s))

RECURSIVE SelectIdx(_, _, _)
\* the indices i >= from of s, ascending, for which Keep[i]
SelectIdx(keep, from, to) ==
    IF from > to THEN <<>>
    ELSE IF keep[from] THEN <<from>> \o SelectIdx(keep, from + 1, to)
    ELSE SelectIdx(keep, from + 1, to)

\* rationals as <<numerator, denominator>>, denominator > 0
RatAdd(a, b) == <<a[1] * b[2] + b[1] * a[2], a[2] * b[2]>>

RECURSIVE RatSum(_)
RatSum(s) == IF s = <<>> THEN <<0, 1>> ELSE RatAdd(Head(s), RatSum(Tail(s)))


(***************************************************************************)
(* The memory store.  Dicts are functions whose DOMAIN is the set of keys. *)
(***************************************************************************)
Put(f, k, v) == [x \in (DOMAIN f) \cup {k} |-> IF x = k THEN v ELSE f[x]]

EmptyDict == [x \in {} |-> 0]

DefaultMemory ==
    [stock_history   |-> EmptyDict,
     news_sentiment  |-> <<>>,
     correlations    |-> EmptyDict,
     predictions_log |-> <<>>,
     learning_stats  |-> [total_days |-> 0, correct_predictions |-> 0,
                          total_predictions |-> 0, last_updated |-> 0]]

\* stock_history.get(symbol, [])
HistoryOf(m, symbol) ==
    IF symbol \in DOMAIN m.stock_history THEN m.stock_history[symbol] ELSE <<>>

DatesOf(history) == {history[i].date : i \in 1..Len(history)}

(***************************************************************************)
(* analyze_sentiment, on the counts of matching tokens.                    *)
(***************************************************************************)
\* a score that is the share of the positive tokens
analyze_sentiment_positive_share(h) ==
    LET total == h.pos + h.neg
    IN  IF total = 0 THEN 0 ELSE RoundDiv(1000 * h.pos, total)

analyze_sentiment(h) ==
    LET total == h.pos + h.neg
    IN  IF total = 0 THEN 0 ELSE RoundDiv(1000 * (h.pos - h.neg), total)

(***************************************************************************)
(* record_stock_data                                                       *)
(***************************************************************************)
\* a record_stock_data that appends without looking at the dates
IsNewDateAlways(history, day) == TRUE

\* `today not in existing_dates`
IsNewDate(history, day) == day \notin DatesOf(history)

\* the appended entry: price rounded to 2 decimals, change_pct to 3
PricePoint(day, price, change_pct) ==
    [date |-> day, price |-> RoundDiv(price, 10), change_pct |-> RoundDiv(change_pct, 10)]

\* a history that is never cut
CapHistoryNone(history) == history

\* a cap that keeps the oldest entries
CapHistoryOldest(history) == IF Len(history) <= HistoryCap THEN history ELSE SubSeq(history, 1, HistoryCap)

\* stock_history[symbol][-365:]
CapHistory(history) == LastN(history, HistoryCap)

\* a call that puts the latest price and change of the day in the place of the first
record_stock_data_overwriting(m, day, symbol, price, change_pct) ==
    LET history == HistoryOf(m, symbol)
        point == PricePoint(day, price, change_pct)
        updated == IF IsNewDate(history, day)
                   THEN CapHistory(Append(history, point))
                   ELSE [i \in 1..Len(history) |->
                            IF history[i].date = day THEN point ELSE history[i]]
        stock_history == Put(m.stock_history, symbol, updated)
        stats == [m.learning_stats EXCEPT
                    !.last_updated = day,
                    !.total_days = Cardinality(UNION {DatesOf(stock_history[s]) :
                                                      s \in DOMAIN stock_history})]
    IN  [m EXCEPT !.stock_history = stock_history, !.learning_stats = stats]

record_stock_data(m, day, symbol, price, change_pct) ==
    LET history == HistoryOf(m, symbol)
        updated == IF IsNewDate(history, day)
                   THEN CapHistory(Append(history, PricePoint(day, price, change_pct)))
                   ELSE history
        stock_history == Put(m.stock_history, symbol, updated)
        stats == [m.learning_stats EXCEPT
                    !.last_updated = day,
                    !.total_days = Cardinality(UNION {DatesOf(stock_history[s]) :
                                                      s \in DOMAIN stock_history})]
    IN  [m EXCEPT !.stock_history = stock_history, !.learning_stats = stats]

(***************************************************************************)
(* record_news_sentiment                                                   *)
(***************************************************************************)
NewsObservation(day, h) == [date |-> day, headline |-> h, sentiment |-> analyze_sentiment(h)]

record_news_sentiment(m, day, headlines) ==
    LET appended == m.news_sentiment \o
                    [i \in 1..Len(headlines) |-> NewsObservation(day, headlines[i])]
        cutoff == day - NewsWindow
        KeepNews(n) == n.date >= cutoff
    IN  [m EXCEPT !.news_sentiment = SelectSeq(appended, KeepNews)]

(***************************************************************************)
(* learn_correlations                                                      *)
(***************************************************************************)
\* [n["sentiment"] for n in news_sentiment if n["date"] == prev_date or n["date"] == date]
DaySentiments(news, prev_date, date) ==
    LET keep == [i \in 1..Len(news) |-> news[i].date = prev_date \/ news[i].date = date]
        idx  == SelectIdx(keep, 1, Len(news))
    IN  [k \in 1..Len(idx) |-> news[idx[k]].sentiment]

\* a bucketing that takes a change of exactly +0.5 or -0.5 percent for a move
BucketOfInclusive(history, news, i) ==
    IF DaySentiments(news, history[i - 1].date, history[i].date) = <<>> THEN "skip"
    ELSE IF history[i].change_pct >= 500 THEN "up"
    ELSE IF history[i].change_pct <= -500 THEN "down"
    ELSE "neutral"

\* where the pair (history[i-1], history[i]) puts its average sentiment
BucketOf(history, news, i) ==
    IF DaySentiments(news, history[i - 1].date, history[i].date) = <<>> THEN "skip"
    ELSE IF history[i].change_pct > 500 THEN "up"
    ELSE IF history[i].change_pct < -500 THEN "down"
    ELSE "neutral"

\* up_sentiments / down_sentiments / neutral_sentiments: the averages, as rationals
BucketSentiments(history, news, bucket) ==
    LET keep == [i \in 1..Len(history) |-> i >= 2 /\ BucketOf(history, news, i) = bucket]
        idx  == SelectIdx(keep, 1, Len(history))
        Avg(i) == LET ds == DaySentiments(news, history[i - 1].date, history[i].date)
                  IN  <<SeqSum(ds), Len(ds)>>
    IN  [k \in 1..Len(idx) |-> Avg(idx[k])]

\* round(sum(xs) / len(xs), 3) if xs else 0
BucketMean(xs) ==
    IF xs = <<>> THEN 0
    ELSE LET total == RatSum(xs) IN RoundDiv(total[1], total[2] * Len(xs))

\* a record whose impact score is the difference of the two stored means, whether or
\* not both buckets hold a day
CorrelationUnguarded(history, news) ==
    LET up      == BucketSentiments(history, news, "up")
        down    == BucketSentiments(history, news, "down")
        neutral == BucketSentiments(history, news, "neutral")
    IN  [data_points                  |-> Len(history),
         avg_sentiment_before_up      |-> BucketMean(up),
         avg_sentiment_before_down    |-> BucketMean(down),
         avg_sentiment_before_neutral |-> BucketMean(neutral),
         up_days      |-> Len(up),
         down_days    |-> Len(down),
         neutral_days |-> Len(neutral),
         sentiment_impact_score |-> Abs(BucketMean(up) - BucketMean(down))]

Correlation(history, news) ==
    LET up      == BucketSentiments(history, news, "up")
        down    == BucketSentiments(history, news, "down")
        neutral == BucketSentiments(history, news, "neutral")
        avg_up   == BucketMean(up)
        avg_down == BucketMean(down)
    IN  [data_points                  |-> Len(history),
         avg_sentiment_before_up      |-> avg_up,
         avg_sentiment_before_down    |-> avg_down,
         avg_sentiment_before_neutral |-> BucketMean(neutral),
         up_days      |-> Len(up),
         down_days    |-> Len(down),
         neutral_days |-> Len(neutral),
         sentiment_impact_score |-> IF up # <<>> /\ down # <<>>
                                    THEN Abs(avg_up - avg_down) ELSE 0]

\* a learner that writes an entry for every instrument of the history
HasEnoughHistoryAlways(history) == TRUE

\* not `len(history) < 3`
HasEnoughHistory(history) == Len(history) >= 3

\* a learner that patches the entry it finds: it adds the days it counts to the
\* counts the entry holds
learn_correlations_incremental(m) ==
    LET learned == {s \in DOMAIN m.stock_history : HasEnoughHistory(m.stock_history[s])}
        Patched(s) ==
            LET fresh == Correlation(m.stock_history[s], m.news_sentiment)
            IN  IF s \in DOMAIN m.correlations
                THEN [fresh EXCEPT !.up_days = @ + m.correlations[s].up_days,
                                   !.down_days = @ + m.correlations[s].down_days,
                                   !.neutral_days = @ + m.correlations[s].neutral_days]
                ELSE fresh
    IN  [m EXCEPT !.correlations =
            [s \in (DOMAIN m.correlations) \cup learned |->
                IF s \in learned THEN Patched(s) ELSE m.correlations[s]]]

learn_correlations(m) ==
    LET learned == {s \in DOMAIN m.stock_history : HasEnoughHistory(m.stock_history[s])}
        correlations ==
            [s \in (DOMAIN m.correlations) \cup learned |->
                IF s \in learned
                THEN Correlation(m.stock_history[s], m.news_sentiment)
                ELSE m.correlations[s]]
    IN  [m EXCEPT !.correlations = correlations]

(***************************************************************************)
(* predict_movement                                                        *)
(***************************************************************************)
\* a predictor that takes every stored observation as recent
RecentSentimentsAll(m, day) ==
    [k \in 1..Len(m.news_sentiment) |-> m.news_sentiment[k].sentiment]

\* [n["sentiment"] for n in news_sentiment if n["date"] >= yesterday]
RecentSentiments(m, day) ==
    LET news == m.news_sentiment
        keep == [i \in 1..Len(news) |-> news[i].date >= day - 1]
        idx  == SelectIdx(keep, 1, Len(news))
    IN  [k \in 1..Len(idx) |-> news[idx[k]].sentiment]

\* a rule that names the farther bucket
DirectionFarther(total, n, up_sentiment, down_sentiment) ==
    LET dist_to_up   == IF up_sentiment # 0 THEN Abs(total - n * up_sentiment) ELSE 1000 * n
        dist_to_down == IF down_sentiment # 0 THEN Abs(total - n * down_sentiment) ELSE 1000 * n
    IN  IF dist_to_up > dist_to_down THEN "UP"
        ELSE IF dist_to_down > dist_to_up THEN "DOWN"
        ELSE "SIDEWAYS"

\* The direction for current_sentiment = total / n.  Both distances are
\* multiplied by n, which keeps their order: dist_to_up is
\* abs(current_sentiment - up_sentiment), or 1 when up_sentiment is 0.
Direction(total, n, up_sentiment, down_sentiment) ==
    LET dist_to_up   == IF up_sentiment # 0 THEN Abs(total - n * up_sentiment) ELSE 1000 * n
        dist_to_down == IF down_sentiment # 0 THEN Abs(total - n * down_sentiment) ELSE 1000 * n
    IN  IF dist_to_up < dist_to_down THEN "UP"
        ELSE IF dist_to_down < dist_to_up THEN "DOWN"
        ELSE "SIDEWAYS"

\* a raw confidence with the two weights exchanged
RawConfidenceSwapped(data_points, impact_score) ==
    <<150 * Min(data_points, 60) + 6 * Min(2 * impact_score, 1000), 15>>

\* raw_confidence, in tenths of a percent, as the rational <<numerator, 15>>:
\* (min(dp / 60, 1) * 0.4 + min(impact * 2, 1) * 0.6) * 100
RawConfidence(data_points, impact_score) ==
    <<100 * Min(data_points, 60) + 9 * Min(2 * impact_score, 1000), 15>>

\* a confidence that is rounded and not capped
ConfidenceUncapped(data_points, impact_score) ==
    LET raw == RawConfidence(data_points, impact_score) IN RoundDiv(raw[1], raw[2])

\* min(round(raw_confidence, 1), 85)
Confidence(data_points, impact_score) ==
    LET raw == RawConfidence(data_points, impact_score)
    IN  Min(RoundDiv(raw[1], raw[2]), 850)

\* a predictor that forgets to log
LogAppendNever(log, record) == log

\* predictions_log.append({...})
LogAppend(log, record) == Append(log, record)

\* a log that is never cut
CapLogNone(log) == log

\* a log cut at the wrong end
CapLogOldest(log) == IF Len(log) <= LogCap THEN log ELSE SubSeq(log, 1, LogCap)

\* predictions_log[-500:]
CapLog(log) == LastN(log, LogCap)

\* a narrative that cites the sum of the recent sentiments for their mean
ReasoningOfSum(corr, total, n) ==
    LET total_days == corr.up_days + corr.down_days + corr.neutral_days
    IN  [data_points      |-> corr.data_points,
         current_sentiment |-> RoundDiv(total, 10),
         up_pct           |-> IF total_days > 0 THEN RoundDiv(1000 * corr.up_days, total_days) ELSE 0,
         down_pct         |-> IF total_days > 0 THEN RoundDiv(1000 * corr.down_days, total_days) ELSE 0,
         impact_score     |-> RoundDiv(corr.sentiment_impact_score, 10),
         up_sentiment     |-> corr.avg_sentiment_before_up,
         down_sentiment   |-> corr.avg_sentiment_before_down]

\* lines 307-319: the numbers the reasoning text cites, in the units it prints them:
\* current_sentiment (+.2f) and impact_score (.2f) in hundredths, the percentages in
\* tenths, the two means (+.3f) in thousandths
Reasoning(corr, total, n) ==
    LET total_days == corr.up_days + corr.down_days + corr.neutral_days
    IN  [data_points      |-> corr.data_points,
         current_sentiment |-> RoundDiv(total, 10 * n),
         up_pct           |-> IF total_days > 0 THEN RoundDiv(1000 * corr.up_days, total_days) ELSE 0,
         down_pct         |-> IF total_days > 0 THEN RoundDiv(1000 * corr.down_days, total_days) ELSE 0,
         impact_score     |-> RoundDiv(corr.sentiment_impact_score, 10),
         up_sentiment     |-> corr.avg_sentiment_before_up,
         down_sentiment   |-> corr.avg_sentiment_before_down]

\* lines 273-319: what predict_movement returns for the record `corr` of its
\* instrument and the recent sentiments of sum `total` and count `n`
Prediction(corr, total, n) ==
    IF corr.data_points < 3
    THEN [direction |-> "LEARNING", confidence |-> 0,
          reasoning |-> [data_points |-> corr.data_points]]
    ELSE [direction  |-> Direction(total, n, corr.avg_sentiment_before_up,
                                   corr.avg_sentiment_before_down),
          confidence |-> Confidence(corr.data_points, corr.sentiment_impact_score),
          reasoning  |-> Reasoning(corr, total, n)]

PredictionRecord(day, symbol, direction, confidence, total, n) ==
    [date |-> day, symbol |-> symbol, predicted_direction |-> direction,
     confidence |-> confidence, news_sentiment |-> RoundDiv(total, n),
     \* the fields the verifier adds, absent until then
     verified |-> FALSE, actual_direction |-> "none", actual_change |-> 0,
     correct |-> FALSE,
     \* history field: how many times the verifier's grading block ran on this record
     gradings |-> 0]

Returned(direction, confidence, data_points) ==
    [direction |-> direction, confidence |-> confidence, data_points |-> data_points]

\* lines 273-333: the call once `memory` holds the correlations it will use
PredictFrom(m, day, symbol) ==
    LET recent == RecentSentiments(m, day)
        total  == SeqSum(recent)
        n      == Len(recent)
        known  == symbol \in DOMAIN m.correlations
        corr   == m.correlations[symbol]
    IN  IF ~known
        THEN [mem |-> m, saved |-> FALSE, ret |-> Returned("LEARNING", 0, 0)]
        ELSE IF corr.data_points < 3
        THEN [mem |-> m, saved |-> FALSE, ret |-> Returned("LEARNING", 0, corr.data_points)]
        ELSE LET direction  == Direction(total, n, corr.avg_sentiment_before_up,
                                         corr.avg_sentiment_before_down)
                 confidence == Confidence(corr.data_points, corr.sentiment_impact_score)
                 log == LogAppend(m.predictions_log,
                                  PredictionRecord(day, symbol, direction, confidence, total, n))
             IN  [mem   |-> [m EXCEPT !.predictions_log = CapLog(log)],
                  saved |-> TRUE,
                  ret   |-> Returned(direction, confidence, corr.data_points)]

\* a predictor that goes on without recent news
HasRecentNewsAlways(recent_sentiments) == TRUE

\* not `if not recent_sentiments`
HasRecentNews(recent_sentiments) == recent_sentiments # <<>>

\* a call that never learns first
predict_movement_unlearned(m, day, symbol) ==
    IF ~HasRecentNews(RecentSentiments(m, day))
    THEN [mem |-> m, saved |-> FALSE, ret |-> Returned("NEUTRAL", 0, 0)]
    ELSE PredictFrom(m, day, symbol)

\* the whole call, run alone
predict_movement(m, day, symbol) ==
    IF ~HasRecentNews(RecentSentiments(m, day))
    THEN [mem |-> m, saved |-> FALSE, ret |-> Returned("NEUTRAL", 0, 0)]
    ELSE IF symbol \notin DOMAIN m.correlations
    THEN PredictFrom(learn_correlations(m), day, symbol)
    ELSE PredictFrom(m, day, symbol)

(***************************************************************************)
(* verify_past_predictions                                                 *)
(***************************************************************************)
\* a verifier that grades every record on every call
IsSkippedNever(pred) == FALSE

\* `if pred.get("verified"): continue`
IsSkipped(pred) == pred.verified

\* a verifier that also takes the price point of the prediction's own day
IsAfterOrSame(h, pred_date) == h.date >= pred_date

\* `h["date"] > pred_date`
IsAfter(h, pred_date) == h.date > pred_date

\* index of the first entry of history the inner loop stops at, 0 if none
FirstLater(history, pred_date) ==
    LET later == {i \in 1..Len(history) : IsAfter(history[i], pred_date)}
    IN  IF later = {} THEN 0 ELSE CHOOSE i \in later : \A j \in later : i <= j

\* lines 357-363
Grade(pred, h) ==
    [pred EXCEPT
        !.actual_direction = IF h.change_pct > 0 THEN "UP" ELSE "DOWN",
        !.actual_change = h.change_pct,
        !.correct = (pred.predicted_direction = "UP" /\ h.change_pct > 0)
                    \/ (pred.predicted_direction = "DOWN" /\ h.change_pct < 0),
        !.verified = TRUE,
        !.gradings = pred.gradings + 1]

\* the records this pass grades
IsGraded(m, pred) ==
    ~IsSkipped(pred) /\ FirstLater(HistoryOf(m, pred.symbol), pred.date) # 0

\* sum(1 for p in predictions_log if p.get("verified"))
CountVerified(log) == Cardinality({i \in 1..Len(log) : log[i].verified})

\* sum(1 for p in predictions_log if p.get("correct"))
CountCorrect(log) == Cardinality({i \in 1..Len(log) : log[i].correct})

verify_past_predictions(m) ==
    LET log == m.predictions_log
        graded == [i \in 1..Len(log) |->
                     IF IsGraded(m, log[i])
                     THEN LET history == HistoryOf(m, log[i].symbol)
                          IN  Grade(log[i], history[FirstLater(history, log[i].date)])
                     ELSE log[i]]
        verified == Cardinality({i \in 1..Len(log) : IsGraded(m, log[i])})
    IN  IF verified > 0
        THEN [m EXCEPT !.predictions_log = graded,
                       !.learning_stats =
                           [m.learning_stats EXCEPT
                               !.total_predictions = CountVerified(graded),
                               !.correct_predictions = CountCorrect(graded)]]
        ELSE m

(***************************************************************************)
(* The calls run one at a time, each a whole load / mutate / save pass.    *)
(***************************************************************************)
Callers == {1, 2}

NoReturn == Returned("none", 0, 0)

\* a completed call: its name, its symbol and change_pct arguments (as stored), its result
Completed(op, symbol, change_pct, ret) ==
    [op |-> op, symbol |-> symbol, change_pct |-> change_pct, ret |-> ret]

Idle ==
    /\ pc = [c \in Callers |-> "idle"]
    /\ local = [c \in Callers |-> DefaultMemory]
    /\ call = [c \in Callers |-> Completed("none", "-", 0, NoReturn)]
    /\ missed = [c \in Callers |-> {}]
    /\ lastSaver = 0

Init ==
    /\ mem = DefaultMemory
    /\ today = 1
    /\ lastOp = Completed("none", "-", 0, NoReturn)
    /\ Idle
    /\ fnIn = <<>>
    /\ fnOut = <<>>

Others == <<pc, local, call, missed, lastSaver, fnIn, fnOut>>

\* datetime.now() moves on to the next day
Tick ==
    /\ today < MaxDay
    /\ today' = today + 1
    /\ UNCHANGED <<mem, lastOp, Others>>

RecordStockDataOf(symbols) ==
    \E symbol \in symbols, price \in PriceInputs, change_pct \in ChangeInputs :
        /\ mem' = record_stock_data(mem, today, symbol, price, change_pct)
        /\ lastOp' = Completed("record_stock_data", symbol, RoundDiv(change_pct, 10), NoReturn)
        /\ UNCHANGED <<today, Others>>

RecordStockData == RecordStockDataOf(Symbols)

RecordNewsSentiment ==
    \E headlines \in HeadlineLists :
        /\ Len(record_news_sentiment(mem, today, headlines).news_sentiment) <= MaxNews
        /\ mem' = record_news_sentiment(mem, today, headlines)
        /\ lastOp' = Completed("record_news_sentiment", "-", 0, NoReturn)
        /\ UNCHANGED <<today, Others>>

LearnCorrelations ==
    /\ mem' = learn_correlations(mem)
    /\ lastOp' = Completed("learn_correlations", "-", 0, NoReturn)
    /\ UNCHANGED <<today, Others>>

PredictMovement ==
    \E symbol \in Symbols :
        LET result == predict_movement(mem, today, symbol)
        IN  /\ mem' = result.mem
            /\ lastOp' = Completed("predict_movement", symbol, 0, result.ret)
            /\ UNCHANGED <<today, Others>>

VerifyPastPredictions ==
    /\ mem' = verify_past_predictions(mem)
    /\ lastOp' = Completed("verify_past_predictions", "-", 0, NoReturn)
    /\ UNCHANGED <<today, Others>>

Next ==
    \/ Tick
    \/ RecordStockData
    \/ RecordNewsSentiment
    \/ LearnCorrelations
    \/ PredictMovement
    \/ VerifyPastPredictions

Spec == Init /\ [][Next]_vars

(***************************************************************************)
(* record_stock_data alone, over two instruments.                          *)
(***************************************************************************)
RecordSymbols == {"A", "B"}

RecordAnyStockData == RecordStockDataOf(RecordSymbols)

NextRecord ==
    \/ Tick
    \/ RecordAnyStockData

SpecRecord == Init /\ [][NextRecord]_vars

(***************************************************************************)
(* The confidence formula of predict_movement over a range of Correlations.*)
(***************************************************************************)
InitConfidence ==
    /\ mem = DefaultMemory
    /\ today = 1
    /\ lastOp = Completed("none", "-", 0, NoReturn)
    /\ Idle
    /\ fnIn \in (3..MaxDataPoints) \X (0..MaxImpact)
    /\ fnOut = <<>>

ApplyConfidence ==
    /\ fnOut = <<>>
    /\ fnOut' = <<Confidence(fnIn[1], fnIn[2])>>
    /\ UNCHANGED <<mem, today, lastOp, pc, local, call, missed, lastSaver, fnIn>>

NextConfidence == ApplyConfidence

SpecConfidence == InitConfidence /\ [][NextConfidence]_vars

(***************************************************************************)
(* Concurrent callers.  Each call is the sequence of its load_memory and   *)
(* save_memory steps, and the steps of the callers interleave.  The store  *)
(* starts as three days of record_stock_data and a record_news_sentiment   *)
(* leave it, so that predict_movement learns and gives a direction; the    *)
(* clock stands still.  What the calls return is not kept.                 *)
(***************************************************************************)
WarmPrice == CHOOSE p \in PriceInputs : TRUE
WarmChanges == <<10004, -10004, 10004>>
WarmHeadlines == <<CHOOSE h \in Headlines : TRUE>>

RECURSIVE WarmHistory(_)
\* the store after record_stock_data("A", ...) on each of the days 1..day
WarmHistory(day) ==
    IF day = 0 THEN DefaultMemory
    ELSE record_stock_data(WarmHistory(day - 1), day, "A", WarmPrice, WarmChanges[day])

WarmDay == Len(WarmChanges)

WarmStore == record_news_sentiment(WarmHistory(WarmDay), WarmDay, WarmHeadlines)

\* news observations the store holds at most under concurrent callers
ConcMaxNews == 2

\* a write that updates the file instrument by instrument and so keeps the
\* histories of the instruments that `memory` does not hold
save_memory_merging(file, memory) ==
    [memory EXCEPT !.stock_history =
        [s \in (DOMAIN file.stock_history) \cup (DOMAIN memory.stock_history) |->
            IF s \in DOMAIN memory.stock_history
            THEN memory.stock_history[s] ELSE file.stock_history[s]]]

\* a write that adds to each history of the file the entries of `memory` that the
\* file does not hold
save_memory_appending(file, memory) ==
    [memory EXCEPT !.stock_history =
        [s \in DOMAIN memory.stock_history |->
            LET old == HistoryOf(file, s)
                held == {old[i] : i \in 1..Len(old)}
                IsNew(h) == h \notin held
            IN  old \o SelectSeq(memory.stock_history[s], IsNew)]]

\* what the file holds after save_memory(memory) found it holding `file`:
\* open(MEMORY_FILE, "w") and json.dump replace the whole content
save_memory(file, memory) == memory

\* the price points, news observations (with their place in the list) and prediction
\* records of a store
Items(m) ==
    [prices      |-> UNION {{<<s, m.stock_history[s][i]>> : i \in 1..Len(m.stock_history[s])} :
                            s \in DOMAIN m.stock_history},
     news        |-> {<<i, m.news_sentiment[i]>> : i \in 1..Len(m.news_sentiment)},
     predictions |-> {m.predictions_log[i] : i \in 1..Len(m.predictions_log)}]

NoItems == [prices |-> {}, news |-> {}, predictions |-> {}]

ItemsMinus(a, b) ==
    [prices |-> a.prices \ b.prices, news |-> a.news \ b.news,
     predictions |-> a.predictions \ b.predictions]

ItemsPlus(a, b) ==
    [prices |-> a.prices \cup b.prices, news |-> a.news \cup b.news,
     predictions |-> a.predictions \cup b.predictions]

ItemsMeet(a, b) ==
    [prices |-> a.prices \cap b.prices, news |-> a.news \cap b.news,
     predictions |-> a.predictions \cap b.predictions]

Calling(op, symbol, price, change_pct, headlines) ==
    [op |-> op, symbol |-> symbol, price |-> price, change_pct |-> change_pct,
     headlines |-> headlines, day |-> today]

NotCalling == [op |-> "none", symbol |-> "-", price |-> 0, change_pct |-> 0,
               headlines |-> <<>>, day |-> 0]

InitConc ==
    /\ mem = WarmStore
    /\ today = WarmDay
    /\ lastOp = Completed("none", "-", 0, NoReturn)
    /\ pc = [c \in Callers |-> "idle"]
    /\ local = [c \in Callers |-> DefaultMemory]
    /\ call = [c \in Callers |-> NotCalling]
    /\ missed = [c \in Callers |-> NoItems]
    /\ lastSaver = 0
    /\ fnIn = <<>>
    /\ fnOut = <<>>

\* the callers that hold a copy they are going to save
Holding(c) == pc[c] \in {"loaded", "learning"}

\* memory = load_memory(): nothing missed yet
Loaded(c) == missed' = [missed EXCEPT ![c] = NoItems]

\* the caller is done: it holds no copy any more
Return(c) ==
    /\ pc' = [pc EXCEPT ![c] = "idle"]
    /\ call' = [call EXCEPT ![c] = NotCalling]
    /\ local' = [local EXCEPT ![c] = DefaultMemory]

\* save_memory(memory) by caller c: the file is replaced.  What c wrote is missed by
\* the others that hold a copy without it; what c had missed and did not write
\* itself stays missed by c.
Save(c, memory) ==
    /\ mem' = save_memory(mem, memory)
    /\ lastSaver' = c
    /\ missed' = [d \in Callers |->
                    IF d = c THEN ItemsMinus(missed[c], Items(memory))
                    ELSE IF Holding(d)
                    THEN ItemsPlus(missed[d],
                                   ItemsMinus(ItemsMinus(Items(memory), Items(local[c])),
                                              Items(local[d])))
                    ELSE NoItems]

BeginRecordStockData(c) ==
    \E symbol \in RecordSymbols, price \in PriceInputs, change_pct \in ChangeInputs :
        /\ pc[c] = "idle"
        /\ Loaded(c)
        /\ local' = [local EXCEPT ![c] = mem]
        /\ call' = [call EXCEPT ![c] = Calling("record_stock_data", symbol, price, change_pct, <<>>)]
        /\ pc' = [pc EXCEPT ![c] = "loaded"]
        /\ UNCHANGED <<mem, today, lastOp, lastSaver, fnIn, fnOut>>

BeginRecordNewsSentiment(c) ==
    \E headlines \in HeadlineLists :
        /\ pc[c] = "idle"
        /\ Len(mem.news_sentiment) + Len(headlines) <= ConcMaxNews
        /\ Loaded(c)
        /\ local' = [local EXCEPT ![c] = mem]
        /\ call' = [call EXCEPT ![c] = Calling("record_news_sentiment", "-", 0, 0, headlines)]
        /\ pc' = [pc EXCEPT ![c] = "loaded"]
        /\ UNCHANGED <<mem, today, lastOp, lastSaver, fnIn, fnOut>>

\* lines 249-271: the load, the early NEUTRAL return, the choice to learn first
BeginPredictMovement(c) ==
    \E symbol \in RecordSymbols :
        /\ pc[c] = "idle"
        /\ Loaded(c)
        /\ IF ~HasRecentNews(RecentSentiments(mem, today))
           THEN Return(c)
           ELSE /\ call' = [call EXCEPT ![c] = Calling("predict_movement", symbol, 0, 0, <<>>)]
                /\ local' = [local EXCEPT ![c] = mem]
                /\ pc' = [pc EXCEPT ![c] =
                            IF symbol \in DOMAIN mem.correlations THEN "loaded" ELSE "learn"]
        /\ UNCHANGED <<mem, today, lastOp, lastSaver, fnIn, fnOut>>

\* learn_correlations() called by predict_movement: its load_memory (line 183)
LearnLoad(c) ==
    /\ pc[c] = "learn"
    /\ Loaded(c)
    /\ local' = [local EXCEPT ![c] = mem]
    /\ pc' = [pc EXCEPT ![c] = "learning"]
    /\ UNCHANGED <<mem, today, lastOp, call, lastSaver, fnIn, fnOut>>

\* ... and its save_memory (line 240)
LearnSave(c) ==
    /\ pc[c] = "learning"
    /\ Save(c, learn_correlations(local[c]))
    /\ pc' = [pc EXCEPT ![c] = "reload"]
    /\ UNCHANGED <<today, lastOp, local, call, fnIn, fnOut>>

\* memory = load_memory() at line 270, and the LEARNING return
Reload(c) ==
    /\ pc[c] = "reload"
    /\ Loaded(c)
    /\ LET result == PredictFrom(mem, call[c].day, call[c].symbol)
       IN  IF result.saved
           THEN /\ pc' = [pc EXCEPT ![c] = "loaded"]
                /\ local' = [local EXCEPT ![c] = mem]
                /\ UNCHANGED call
           ELSE Return(c)
    /\ UNCHANGED <<mem, today, lastOp, lastSaver, fnIn, fnOut>>

\* the rest of the call on the caller's copy, up to its save_memory
Finish(c) ==
    /\ pc[c] = "loaded"
    /\ LET a == call[c]
       IN  Save(c, CASE a.op = "record_stock_data" ->
                          record_stock_data(local[c], a.day, a.symbol, a.price, a.change_pct)
                     [] a.op = "record_news_sentiment" ->
                          record_news_sentiment(local[c], a.day, a.headlines)
                     [] a.op = "predict_movement" ->
                          PredictFrom(local[c], a.day, a.symbol).mem)
    /\ Return(c)
    /\ UNCHANGED <<today, lastOp, fnIn, fnOut>>

NextConc ==
    \E c \in Callers :
        \/ BeginRecordStockData(c)
        \/ BeginRecordNewsSentiment(c)
        \/ BeginPredictMovement(c)
        \/ LearnLoad(c)
        \/ LearnSave(c)
        \/ Reload(c)
        \/ Finish(c)

SpecConc == InitConc /\ [][NextConc]_vars

(***************************************************************************)
(* Properties of the calls run one at a time.                              *)
(***************************************************************************)
Log == mem.predictions_log
Stats == mem.learning_stats

Directions == {"UP", "DOWN", "SIDEWAYS"}

VerifiedIn(log) == {i \in 1..Len(log) : log[i].verified}
CorrectIn(log) == {i \in 1..Len(log) : log[i].correct}

\* the price points of an instrument dated strictly after a day
LaterPoints(m, symbol, day) ==
    {h \in {HistoryOf(m, symbol)[j] : j \in 1..Len(HistoryOf(m, symbol))} : h.date > day}

\* C1: a PredictionRecord is graded at most once: a second verify_past_predictions
\* right after a first changes neither the store nor the LearningStats, and a verify
\* changes no field of a record that is already verified.
C1_GradedOnce ==
    [][VerifyPastPredictions =>
        /\ verify_past_predictions(mem') = mem'
        /\ \A i \in 1..Len(Log) : Log[i].verified => Log'[i] = Log[i]
        /\ \A i \in 1..Len(Log') : Log'[i].gradings <= 1]_vars

\* a verify has graded a record, and another record of the log is still ungraded or
\* the log holds a graded record that the next verify has to leave alone
C1_Witness ==
    /\ lastOp.op = "verify_past_predictions"
    /\ VerifiedIn(Log) # {}
    /\ Stats.total_predictions = Cardinality(VerifiedIn(Log))

\* C3: an instrument has a Correlation entry only if its price history holds at
\* least 3 points.
C3_CorrelationNeedsHistory ==
    \A s \in DOMAIN mem.correlations : Len(HistoryOf(mem, s)) >= 3

\* a learning pass has run over an instrument with 1 or 2 points and left no entry
C3_Witness ==
    /\ lastOp.op = "learn_correlations"
    /\ \E s \in DOMAIN mem.stock_history :
          /\ Len(mem.stock_history[s]) \in {1, 2}
          /\ s \notin DOMAIN mem.correlations

\* C4 as claimed: every predict_movement call, whatever it returns, leaves a
\* PredictionRecord for that instrument and date at the end of the log.
C4_EveryCallAppends ==
    lastOp.op = "predict_movement" =>
        /\ Log # <<>>
        /\ Log[Len(Log)].symbol = lastOp.symbol
        /\ Log[Len(Log)].date = today

\* C4 as amended: a predict_movement call that returns a direction (UP, DOWN or
\* SIDEWAYS) appends one PredictionRecord for that instrument and date, carrying the
\* returned direction and confidence; a call that returns NEUTRAL or LEARNING leaves
\* the log as it was.
C4_DirectionalCallAppends ==
    [][PredictMovement =>
        IF lastOp'.ret.direction \in Directions
        THEN /\ Log' # <<>>
             /\ LET last == Log'[Len(Log')]
                IN  /\ last.symbol = lastOp'.symbol
                    /\ last.date = today
                    /\ last.predicted_direction = lastOp'.ret.direction
                    /\ last.confidence = lastOp'.ret.confidence
                    /\ ~last.verified
             /\ Len(Log) < LogCap => Log' = Log \o <<Log'[Len(Log')]>>
        ELSE Log' = Log]_vars

\* a call has returned a direction and its record ends the log
C4_Witness ==
    /\ lastOp.op = "predict_movement"
    /\ lastOp.ret.direction \in Directions
    /\ Log # <<>>
    /\ Log[Len(Log)].predicted_direction = lastOp.ret.direction
    /\ Log[Len(Log)].date = today

C7_StatsMatchLog ==
    lastOp.op = "verify_past_predictions" =>
        /\ Stats.total_predictions = Cardinality(VerifiedIn(Log))
        /\ Stats.correct_predictions = Cardinality(CorrectIn(Log))

\* C10 as claimed: with exactly 2 price points and no news, no Correlation exists and
\* predict_movement returns LEARNING reporting 2 data points.
C10_TwoPointsLearning ==
    (/\ lastOp.op = "predict_movement"
     /\ Len(HistoryOf(mem, lastOp.symbol)) = 2
     /\ mem.news_sentiment = <<>>) =>
        /\ lastOp.symbol \notin DOMAIN mem.correlations
        /\ lastOp.ret.direction = "LEARNING"
        /\ lastOp.ret.data_points = 2

\* C10 as amended: with exactly 2 price points and no news, no Correlation exists
\* (also after learning) and predict_movement returns NEUTRAL with confidence 0.
C10_TwoPointsNeutral ==
    \A s \in Symbols :
        (Len(HistoryOf(mem, s)) = 2 /\ mem.news_sentiment = <<>>) =>
            /\ s \notin DOMAIN mem.correlations
            /\ (lastOp.op = "predict_movement" /\ lastOp.symbol = s) =>
                  (lastOp.ret.direction = "NEUTRAL" /\ lastOp.ret.confidence = 0)

\* predict_movement has returned for an instrument with 2 price points and no news
C10_Witness ==
    /\ lastOp.op = "predict_movement"
    /\ Len(HistoryOf(mem, lastOp.symbol)) = 2
    /\ mem.news_sentiment = <<>>
    /\ lastOp.ret.direction = "NEUTRAL"

(***************************************************************************)
(* Properties of the confidence formula.                                   *)
(***************************************************************************)
\* C2: for every Correlation with data_points >= 3 and impact score >= 0 the
\* confidence of predict_movement is at least 0 and at most 85.
C2_ConfidenceCapped ==
    fnOut # <<>> => (fnOut[1] >= 0 /\ fnOut[1] <= 850)

\* the formula without the cap gives 100 here, and the confidence is 85
C2_Witness ==
    /\ fnIn = <<60, 500>>
    /\ fnOut = <<850>>
    /\ ConfidenceUncapped(fnIn[1], fnIn[2]) = 1000

(***************************************************************************)
(* Properties of record_stock_data.                                        *)
(***************************************************************************)
\* C9: after any sequence of record_stock_data calls no instrument's price history
\* holds two entries with the same date.
C9_UniqueDates ==
    \A s \in DOMAIN mem.stock_history :
        \A i, j \in 1..Len(mem.stock_history[s]) :
            i # j => mem.stock_history[s][i].date # mem.stock_history[s][j].date

\* a call has come for an instrument that already had its entry of the day (the entry
\* holds another change_pct than the call gave), with both instruments recorded today
C9_Witness ==
    /\ lastOp.op = "record_stock_data"
    /\ \E i \in 1..Len(HistoryOf(mem, lastOp.symbol)) :
          /\ HistoryOf(mem, lastOp.symbol)[i].date = today
          /\ HistoryOf(mem, lastOp.symbol)[i].change_pct # lastOp.change_pct
    /\ \A s \in RecordSymbols : today \in DatesOf(HistoryOf(mem, s))

(***************************************************************************)
(* Properties of concurrent callers.                                       *)
(***************************************************************************)
\* C8: when calls interleave their load and save steps the later save overwrites the
\* earlier one: once a caller has saved, the store holds none of the price points,
\* news observations and prediction records that completed calls wrote after this
\* caller's load and that its own copy did not get.
C8_LastWriterWins ==
    \A c \in Callers :
        lastSaver = c => ItemsMeet(Items(mem), missed[c]) = NoItems

\* both callers are done and the store lacks a price point, a news observation and a
\* prediction record that completed calls had saved
C8_Witness ==
    /\ \A c \in Callers : pc[c] = "idle"
    /\ \E c \in Callers :
          /\ lastSaver = c
          /\ missed[c].prices # {}
          /\ missed[c].news # {}
          /\ missed[c].predictions # {}
          /\ ItemsMeet(Items(mem), missed[c]) = NoItems

(***************************************************************************)
(* Properties of predict_movement without recent news.                     *)
(***************************************************************************)
\* the news observations dated yesterday or today
NewsOfLastDay(m, day) ==
    {i \in 1..Len(m.news_sentiment) : m.news_sentiment[i].date \in {day - 1, day}}

\* C11: when no news observation is dated yesterday or today, predict_movement
\* returns NEUTRAL with confidence 0 for every instrument, whatever its history and
\* Correlation, and leaves the whole store as it was.
C11_NoNewsNeutral ==
    [][(PredictMovement /\ NewsOfLastDay(mem, today) = {}) =>
          /\ lastOp'.ret.direction = "NEUTRAL"
          /\ lastOp'.ret.confidence = 0
          /\ mem' = mem]_vars

\* the call has returned NEUTRAL for an instrument that has a Correlation with 3 data
\* points, with an observation in the store that is older than yesterday
C11_Witness ==
    /\ lastOp.op = "predict_movement"
    /\ lastOp.ret.direction = "NEUTRAL"
    /\ NewsOfLastDay(mem, today) = {}
    /\ mem.news_sentiment # <<>>
    /\ lastOp.symbol \in DOMAIN mem.correlations
    /\ mem.correlations[lastOp.symbol].data_points >= 3

(***************************************************************************)
(* The direction rule of predict_movement over a range of current          *)
(* sentiments and learned means.                                           *)
(***************************************************************************)
\* sentiments and bucket means, in thousandths
DirectionSentiments == {-1000, -400, -100, 0, 100, 500, 600, 1000}
\* how many recent observations the current sentiment averages
DirectionCounts == {1, 2}

InitDirection ==
    /\ mem = DefaultMemory
    /\ today = 1
    /\ lastOp = Completed("none", "-", 0, NoReturn)
    /\ Idle
    /\ fnIn \in DirectionSentiments \X DirectionCounts \X DirectionSentiments \X DirectionSentiments
    /\ fnOut = <<>>

\* lines 289-297 on current_sentiment = fnIn[1] / fnIn[2]
ApplyDirection ==
    /\ fnOut = <<>>
    /\ fnOut' = <<Direction(fnIn[1], fnIn[2], fnIn[3], fnIn[4])>>
    /\ UNCHANGED <<mem, today, lastOp, pc, local, call, missed, lastSaver, fnIn>>

NextDirection == ApplyDirection

SpecDirection == InitDirection /\ [][NextDirection]_vars

\* C12 as claimed: the direction is UP exactly when the current sentiment is strictly
\* nearer to the up-bucket mean than to the down-bucket mean, DOWN exactly when it is
\* strictly nearer to the down-bucket mean, SIDEWAYS exactly when the distances are
\* equal, for all values of the two means, a mean of 0 included.
C12_NearestMean ==
    fnOut # <<>> =>
        LET to_up   == Abs(fnIn[1] - fnIn[2] * fnIn[3])
            to_down == Abs(fnIn[1] - fnIn[2] * fnIn[4])
        IN  /\ fnOut[1] = "UP" <=> to_up < to_down
            /\ fnOut[1] = "DOWN" <=> to_down < to_up
            /\ fnOut[1] = "SIDEWAYS" <=> to_up = to_down

(***************************************************************************)
(* Learning and predicting over recorded histories.  The store starts as   *)
(* daily record_stock_data calls for "A" and a record_news_sentiment call  *)
(* every second day leave it: each observation is dated as the first of    *)
(* two trading days that move the same way, so it is the news of the two   *)
(* adjacent pairs of days that end on them.  The clock stands on the day   *)
(* after the last price point, when none of the observations is recent.    *)
(***************************************************************************)
\* how many observations come before up-days, and before down-days (each observation
\* comes before two trading days)
ScenarioCounts == {0, 1, 10}
\* how many come before days inside the +/-0.5% dead zone
ScenarioFlatCounts == {0, 1}

Headline(pos, neg) == [pos |-> pos, neg |-> neg]

\* the headlines before up-days, taken in turn: sentiments 0.6, 0.6; 0.2, 1.0; 0.0, 0.0
UpProfiles == {<<Headline(4, 1), Headline(4, 1)>>,
               <<Headline(3, 2), Headline(1, 0)>>,
               <<Headline(1, 1), Headline(1, 1)>>}
\* the headlines before down-days: sentiments -0.4, -0.4; -0.8, 0.0; 0.6, 0.6
DownProfiles == {<<Headline(3, 7), Headline(3, 7)>>,
                 <<Headline(1, 9), Headline(1, 1)>>,
                 <<Headline(4, 1), Headline(4, 1)>>}
FlatHeadline == Headline(1, 0)

\* change_pct arguments of an up-day, a down-day and a flat day (units of 0.0001 percent)
ScenarioChanges == [up |-> 20004, down |-> -20004, flat |-> 4996]

ScenarioStore(nUp, nDown, nFlat, ups, downs) ==
    LET n == nUp + nDown + nFlat
        Kind(j) == IF j <= nUp THEN "up" ELSE IF j <= nUp + nDown THEN "down" ELSE "flat"
        Change(j) == ScenarioChanges[Kind(j)]
        Said(j) == IF Kind(j) = "up" THEN ups[(j % 2) + 1]
                   ELSE IF Kind(j) = "down" THEN downs[((j - nUp) % 2) + 1]
                   ELSE FlatHeadline
    IN  [DefaultMemory EXCEPT
            !.stock_history = Put(EmptyDict, "A",
                [i \in 1..(2 * n + 1) |->
                    PricePoint(i, WarmPrice, IF i = 1 THEN ScenarioChanges.flat ELSE Change(i \div 2))]),
            !.news_sentiment = [j \in 1..n |-> NewsObservation(2 * j, Said(j))],
            !.learning_stats = [DefaultMemory.learning_stats EXCEPT
                                   !.total_days = 2 * n + 1, !.last_updated = 2 * n + 1]]

\* the headlines of the day of the prediction: sentiments 0.5, -0.5, 0.0
CurrentHeadlines == {Headline(3, 1), Headline(1, 3), Headline(1, 1)}
\* observations recorded on the day of the prediction at most
MaxCurrentNews == 1

InitLearn ==
    /\ \E nUp \in ScenarioCounts, nDown \in ScenarioCounts, nFlat \in ScenarioFlatCounts,
          ups \in UpProfiles, downs \in DownProfiles :
            /\ mem = ScenarioStore(nUp, nDown, nFlat, ups, downs)
            /\ today = 2 * (nUp + nDown + nFlat) + 2
    /\ lastOp = Completed("none", "-", 0, NoReturn)
    /\ Idle
    /\ fnIn = <<>>
    /\ fnOut = <<>>

RecordCurrentNews ==
    \E h \in CurrentHeadlines :
        /\ Cardinality(NewsOfLastDay(mem, today)) < MaxCurrentNews
        /\ mem' = record_news_sentiment(mem, today, <<h>>)
        /\ lastOp' = Completed("record_news_sentiment", "-", 0, NoReturn)
        /\ UNCHANGED <<today, Others>>

NextLearn ==
    \/ RecordCurrentNews
    \/ LearnCorrelations
    \/ PredictMovement

SpecLearn == InitLearn /\ [][NextLearn]_vars

\* C13: learn_correlations is idempotent: a second call on the store the first call
\* left, with the history and the news unchanged, gives the same Correlation
\* records and the same store.
C13_LearnIdempotent ==
    lastOp.op = "learn_correlations" => learn_correlations(mem) = mem

\* a learning pass has written a Correlation that counts up-days, down-days and flat days
C13_Witness ==
    /\ lastOp.op = "learn_correlations"
    /\ \E s \in DOMAIN mem.correlations :
          /\ mem.correlations[s].up_days > 0
          /\ mem.correlations[s].down_days > 0
          /\ mem.correlations[s].neutral_days > 0

\* C14 as claimed: in every Correlation the impact score is the absolute difference
\* of the up mean and the down mean of the record.
C14_ImpactIsDifference ==
    \A s \in DOMAIN mem.correlations :
        LET c == mem.correlations[s]
        IN  c.sentiment_impact_score =
                Abs(c.avg_sentiment_before_up - c.avg_sentiment_before_down)

\* C14 as amended: the impact score is the absolute difference of the up mean and the
\* down mean when the record counts at least one up-day and one down-day, and 0
\* when either bucket is empty.
C14_ImpactOfBothBuckets ==
    \A s \in DOMAIN mem.correlations :
        LET c == mem.correlations[s]
        IN  c.sentiment_impact_score =
                IF c.up_days > 0 /\ c.down_days > 0
                THEN Abs(c.avg_sentiment_before_up - c.avg_sentiment_before_down)
                ELSE 0

\* a Correlation with days in both buckets, different means and the impact score
\* between them
C14_Witness ==
    \E s \in DOMAIN mem.correlations :
        LET c == mem.correlations[s]
        IN  /\ c.up_days = 2 /\ c.down_days = 20
            /\ c.avg_sentiment_before_up = 1000
            /\ c.avg_sentiment_before_down = -400
            /\ c.sentiment_impact_score = 1400

\* C15: for a history of 20 up-days preceded by an average sentiment of +0.6 and 20
\* down-days preceded by an average of -0.4 the learned impact score is 1.0, and
\* with a current sentiment of +0.5 predict_movement returns UP.
C15_Scenario ==
    \A s \in DOMAIN mem.correlations :
        LET c == mem.correlations[s]
            recent == RecentSentiments(mem, today)
        IN  (/\ c.up_days = 20 /\ c.avg_sentiment_before_up = 600
             /\ c.down_days = 20 /\ c.avg_sentiment_before_down = -400) =>
                /\ c.sentiment_impact_score = 1000
                /\ (/\ lastOp.op = "predict_movement" /\ lastOp.symbol = s
                    /\ recent # <<>> /\ SeqSum(recent) = 500 * Len(recent)) =>
                        lastOp.ret.direction = "UP"

\* the prediction has been made in that scenario, from up-days preceded by sentiments
\* of 0.2 and 1.0 in turn
C15_Witness ==
    /\ lastOp.op = "predict_movement"
    /\ lastOp.ret.direction = "UP"
    /\ RecentSentiments(mem, today) = <<500>>
    /\ lastOp.symbol \in DOMAIN mem.correlations
    /\ LET c == mem.correlations[lastOp.symbol]
       IN  /\ c.up_days = 20 /\ c.avg_sentiment_before_up = 600
           /\ c.down_days = 20 /\ c.avg_sentiment_before_down = -400
           /\ c.sentiment_impact_score = 1000
    /\ \E i \in 1..Len(mem.news_sentiment) : mem.news_sentiment[i].sentiment = 200

(***************************************************************************)
(* Properties of the grading of predictions that name no direction.        *)
(***************************************************************************)
\* the records that a verify_past_predictions step has graded
NewlyVerified == {i \in 1..Len(Log) : ~Log[i].verified /\ Log'[i].verified}

\* C16 as claimed: a prediction whose direction is SIDEWAYS is never graded correct or
\* incorrect: a verify_past_predictions that grades SIDEWAYS records only, on stats
\* that count the log, adds nothing to correct_predictions and nothing to the count
\* of incorrect predictions (total_predictions - correct_predictions).
C16_SidewaysNotCounted ==
    [][(/\ VerifyPastPredictions
        /\ Stats.total_predictions = Cardinality(VerifiedIn(Log))
        /\ Stats.correct_predictions = Cardinality(CorrectIn(Log))
        /\ \A i \in NewlyVerified : Log[i].predicted_direction = "SIDEWAYS") =>
            /\ Stats'.correct_predictions = Stats.correct_predictions
            /\ Stats'.total_predictions - Stats'.correct_predictions
                 = Stats.total_predictions - Stats.correct_predictions]_vars

(***************************************************************************)
(* The scoring engine (src/agents/stock_agent.py).  Scores are the code's  *)
(* 1-decimal floats held in tenths (50 is 500); confidence is a whole      *)
(* percentage.                                                             *)
(***************************************************************************)
\* a mapping that takes a score of exactly -10 as HOLD
score_to_recommendation_loose(score, confidence) ==
    [action     |-> IF score >= 500 THEN "STRONG BUY"
                    ELSE IF score >= 250 THEN "BUY"
                    ELSE IF score >= 100 THEN "LEAN BUY"
                    ELSE IF score >= -100 THEN "HOLD"
                    ELSE IF score > -250 THEN "LEAN SELL"
                    ELSE IF score > -500 THEN "SELL"
                    ELSE "STRONG SELL",
     conf_label |-> IF confidence >= 80 THEN "High"
                    ELSE IF confidence >= 50 THEN "Medium" ELSE "Low"]

\* _score_to_recommendation, without the emoji that goes with each action
score_to_recommendation(score, confidence) ==
    [action     |-> IF score >= 500 THEN "STRONG BUY"
                    ELSE IF score >= 250 THEN "BUY"
                    ELSE IF score >= 100 THEN "LEAN BUY"
                    ELSE IF score > -100 THEN "HOLD"
                    ELSE IF score > -250 THEN "LEAN SELL"
                    ELSE IF score > -500 THEN "SELL"
                    ELSE "STRONG SELL",
     conf_label |-> IF confidence >= 80 THEN "High"
                    ELSE IF confidence >= 50 THEN "Medium" ELSE "Low"]

\* the scores given to the mapping run over -MaxScore..MaxScore (tenths)
MaxScore == 1100
\* the confidences given to it: those the engine produces, and the label boundaries
LabelConfidences == {0, 16, 33, 49, 50, 66, 79, 80, 83, 100}

InitLabel ==
    /\ mem = DefaultMemory
    /\ today = 1
    /\ lastOp = Completed("none", "-", 0, NoReturn)
    /\ Idle
    /\ fnIn \in ((-MaxScore)..MaxScore) \X LabelConfidences
    /\ fnOut = <<>>

ApplyLabel ==
    /\ fnOut = <<>>
    /\ fnOut' = <<score_to_recommendation(fnIn[1], fnIn[2])>>
    /\ UNCHANGED <<mem, today, lastOp, pc, local, call, missed, lastSaver, fnIn>>

NextLabel == ApplyLabel

SpecLabel == InitLabel /\ [][NextLabel]_vars

\* the seven labels, from the lowest to the highest
LabelRank ==
    [x \in {"STRONG SELL", "SELL", "LEAN SELL", "HOLD", "LEAN BUY", "BUY", "STRONG BUY"} |->
        CASE x = "STRONG SELL" -> 1 [] x = "SELL" -> 2 [] x = "LEAN SELL" -> 3
          [] x = "HOLD" -> 4 [] x = "LEAN BUY" -> 5 [] x = "BUY" -> 6 [] x = "STRONG BUY" -> 7]

\* C17: _score_to_recommendation gives every score exactly one of the seven labels, by
\* the thresholds >= 50 STRONG BUY, >= 25 BUY, >= 10 LEAN BUY, > -10 HOLD, > -25 LEAN
\* SELL, > -50 SELL, otherwise STRONG SELL; the label never falls when the score
\* rises; the confidence label is High from 80, Medium from 50, Low below.
C17_LabelByThresholds ==
    fnOut # <<>> =>
        LET score  == fnIn[1]
            action == fnOut[1].action
            label  == fnOut[1].conf_label
        IN  /\ action \in DOMAIN LabelRank
            /\ action = "STRONG BUY"  <=> score >= 500
            /\ action = "BUY"         <=> (score >= 250 /\ score < 500)
            /\ action = "LEAN BUY"    <=> (score >= 100 /\ score < 250)
            /\ action = "HOLD"        <=> (score > -100 /\ score < 100)
            /\ action = "LEAN SELL"   <=> (score > -250 /\ score <= -100)
            /\ action = "SELL"        <=> (score > -500 /\ score <= -250)
            /\ action = "STRONG SELL" <=> score <= -500
            /\ LabelRank[action] <= LabelRank[score_to_recommendation(score + 1, fnIn[2]).action]
            /\ label = "High"   <=> fnIn[2] >= 80
            /\ label = "Medium" <=> (fnIn[2] >= 50 /\ fnIn[2] < 80)
            /\ label = "Low"    <=> fnIn[2] < 50

\* a score of exactly -10 is LEAN SELL and a confidence of exactly 80 is High
C17_Witness ==
    /\ fnIn = <<-100, 80>>
    /\ fnOut # <<>>
    /\ fnOut[1] = [action |-> "LEAN SELL", conf_label |-> "High"]

(***************************************************************************)
(* _score_stock.  The price data is held as what each indicator family     *)
(* reads of it: either the exception its try block raises, or the NaN / too *)
(* short series its guard finds, or the values its branches compare.  A     *)
(* family gives the points it adds to the score and whether it counts in    *)
(* indicators_used.                                                         *)
(***************************************************************************)
Raise == [kind |-> "raise"]
NaN == [kind |-> "nan"]
Short == [kind |-> "short"]
Unused == [used |-> FALSE, points |-> 0]
Used(points) == [used |-> TRUE, points |-> points]

\* an RSI block without the pd.notna guard: every comparison with NaN is false
RsiFamilyUnguarded(rsi) ==
    IF rsi.kind = "raise" THEN Unused
    ELSE IF rsi.kind = "nan" THEN Used(5)
    ELSE IF rsi.rsi_val < 30 THEN Used(20)
    ELSE IF rsi.rsi_val < 40 THEN Used(10)
    ELSE IF rsi.rsi_val > 70 THEN Used(-20)
    ELSE IF rsi.rsi_val > 60 THEN Used(-10)
    ELSE Used(5)

\* an RSI block that weighs half as much again
RsiFamilySteep(rsi) ==
    IF rsi.kind # "value" THEN Unused
    ELSE IF rsi.rsi_val < 30 THEN Used(30)
    ELSE IF rsi.rsi_val < 40 THEN Used(10)
    ELSE IF rsi.rsi_val > 70 THEN Used(-30)
    ELSE IF rsi.rsi_val > 60 THEN Used(-10)
    ELSE Used(5)

\* lines 140-162
RsiFamily(rsi) ==
    IF rsi.kind # "value" THEN Unused
    ELSE IF rsi.rsi_val < 30 THEN Used(20)
    ELSE IF rsi.rsi_val < 40 THEN Used(10)
    ELSE IF rsi.rsi_val > 70 THEN Used(-20)
    ELSE IF rsi.rsi_val > 60 THEN Used(-10)
    ELSE Used(5)

\* a MACD block without the histogram momentum bonus
MacdFamilyCrossOnly(macd) ==
    IF macd.kind # "value" THEN Unused
    ELSE IF macd.hist_val > 0 /\ macd.prev_hist <= 0 THEN Used(25)
    ELSE IF macd.hist_val < 0 /\ macd.prev_hist >= 0 THEN Used(-25)
    ELSE IF macd.hist_val > 0 THEN Used(15)
    ELSE Used(-15)

\* lines 165-197; prev_hist is 0 for a histogram of one value, has3 is len(histogram) >= 3
MacdFamily(macd) ==
    IF macd.kind # "value" THEN Unused
    ELSE LET cross == IF macd.hist_val > 0 /\ macd.prev_hist <= 0 THEN 25
                      ELSE IF macd.hist_val < 0 /\ macd.prev_hist >= 0 THEN -25
                      ELSE IF macd.hist_val > 0 THEN 15
                      ELSE -15
             trend == IF ~macd.has3 THEN 0
                      ELSE IF macd.hist_trend > 0 THEN 5 ELSE -5
         IN  Used(cross + trend)

\* lines 200-227
BollingerFamily(bb) ==
    IF bb.kind # "value" THEN Unused
    ELSE IF bb.current <= bb.lower THEN Used(15)
    ELSE IF bb.current >= bb.upper THEN Used(-15)
    ELSE IF bb.current < bb.mid THEN Used(5)
    ELSE Used(-5)

\* `if ma20_val`: None and 0.0 are both false
Truthy(ma) == ma # <<>> /\ ma[1] # 0

\* lines 230-261; a moving average is <<>> for None and <<value>> otherwise
MovingAverageFamily(ma) ==
    IF ma.kind # "value" THEN Unused
    ELSE IF Truthy(ma.ma20) /\ Truthy(ma.ma50)
    THEN IF ma.ma20[1] > ma.ma50[1] /\ ma.current > ma.ma20[1] THEN Used(20)
         ELSE IF ma.ma20[1] > ma.ma50[1] THEN Used(10)
         ELSE IF ma.ma20[1] < ma.ma50[1] /\ ma.current < ma.ma20[1] THEN Used(-20)
         ELSE Used(-10)
    ELSE IF Truthy(ma.ma20)
    THEN IF ma.current > ma.ma20[1] THEN Used(10) ELSE Used(-10)
    ELSE Unused

\* a volume block that weighs twice as much
VolumeFamilyHeavy(volume) ==
    IF volume.kind # "value" THEN Unused
    ELSE IF volume.vol_ratio > 15 /\ volume.price_up THEN Used(20)
    ELSE IF volume.vol_ratio > 15 /\ ~volume.price_up THEN Used(-20)
    ELSE Used(0)

\* lines 264-276; vol_ratio in tenths
VolumeFamily(volume) ==
    IF volume.kind # "value" THEN Unused
    ELSE IF volume.vol_ratio > 15 /\ volume.price_up THEN Used(10)
    ELSE IF volume.vol_ratio > 15 /\ ~volume.price_up THEN Used(-10)
    ELSE Used(0)

\* lines 279-293; mom_5d in hundredths of a percent
MomentumFamily(momentum) ==
    IF momentum.kind # "value" THEN Unused
    ELSE IF momentum.mom_5d > 300 THEN Used(10)
    ELSE IF momentum.mom_5d > 0 THEN Used(5)
    ELSE IF momentum.mom_5d > -300 THEN Used(-5)
    ELSE Used(-10)

FamilyNames == {"rsi", "macd", "bb", "ma", "volume", "momentum"}

\* what each try block of _score_stock leaves, by family
Families(data) ==
    [f \in FamilyNames |->
        CASE f = "rsi"      -> RsiFamily(data.rsi)
          [] f = "macd"     -> MacdFamily(data.macd)
          [] f = "bb"       -> BollingerFamily(data.bb)
          [] f = "ma"       -> MovingAverageFamily(data.ma)
          [] f = "volume"   -> VolumeFamily(data.volume)
          [] f = "momentum" -> MomentumFamily(data.momentum)]

RECURSIVE SumPoints(_, _)
SumPoints(families, names) ==
    IF names = {} THEN 0
    ELSE LET f == CHOOSE x \in names : TRUE
         IN  families[f].points + SumPoints(families, names \ {f})

\* a confidence rounded to the nearest percent
CoverageConfidenceRounded(indicators_used) == Min(100, RoundDiv(100 * indicators_used, 6))

\* min(100, int((indicators_used / 6) * 100)): int() cuts the fraction off
CoverageConfidence(indicators_used) == Min(100, (100 * indicators_used) \div 6)

\* _score_stock: (round(score, 1), signals, confidence), the score in tenths; the
\* signals are left out but for the number of families that were used
score_stock(data) ==
    LET families == Families(data)
        indicators_used == Cardinality({f \in FamilyNames : families[f].used})
    IN  [fn |-> "_score_stock",
         outcome |-> "score",
         score |-> 10 * SumPoints(families, FamilyNames),
         indicators_used |-> indicators_used,
         confidence |-> CoverageConfidence(indicators_used),
         action |-> "-", conf_label |-> "-"]

\* rows a symbol's data must have for get_stock_predictions to score it
MinRows == 26

\* get_stock_predictions for one symbol of the portfolio, lines 395-406
get_stock_predictions(data) ==
    IF data.rows < MinRows
    THEN [fn |-> "get_stock_predictions", outcome |-> "not enough data",
          score |-> 0, indicators_used |-> 0, confidence |-> 0,
          action |-> "-", conf_label |-> "-"]
    ELSE LET scored == score_stock(data)
             label  == score_to_recommendation(scored.score, scored.confidence)
         IN  [scored EXCEPT !.fn = "get_stock_predictions",
                            !.action = label.action, !.conf_label = label.conf_label]

(***************************************************************************)
(* The scoring engine over a range of price data.                          *)
(***************************************************************************)
RsiInputs == {Raise, NaN} \cup {[kind |-> "value", rsi_val |-> v] : v \in {25, 30, 50, 70, 75}}

MacdValue(hist_val, prev_hist, has3, hist_trend) ==
    [kind |-> "value", hist_val |-> hist_val, prev_hist |-> prev_hist,
     has3 |-> has3, hist_trend |-> hist_trend]

MacdInputs == {Raise, NaN, MacdValue(1, 0, TRUE, 1), MacdValue(-1, 0, TRUE, -1),
               MacdValue(1, 1, TRUE, 0), MacdValue(0, 0, FALSE, 0)}

BollingerInputs ==
    {Raise, NaN} \cup {[kind |-> "value", current |-> c, lower |-> 90, mid |-> 100, upper |-> 110] :
                           c \in {90, 95, 100, 110}}

MovingAverageValue(ma20, ma50, current) ==
    [kind |-> "value", ma20 |-> ma20, ma50 |-> ma50, current |-> current]

MovingAverageInputs ==
    {Raise, MovingAverageValue(<<>>, <<>>, 100), MovingAverageValue(<<100>>, <<>>, 110),
     MovingAverageValue(<<100>>, <<90>>, 110), MovingAverageValue(<<90>>, <<100>>, 80),
     MovingAverageValue(<<100>>, <<100>>, 100)}

VolumeInputs == {Raise} \cup {[kind |-> "value", vol_ratio |-> 20, price_up |-> TRUE],
                              [kind |-> "value", vol_ratio |-> 20, price_up |-> FALSE],
                              [kind |-> "value", vol_ratio |-> 15, price_up |-> TRUE]}

MomentumInputs == {Raise, Short} \cup {[kind |-> "value", mom_5d |-> m] : m \in {400, 100, 0, -300}}

\* rows of the price data: an empty series, and series that reach the 26 rows and the
\* 50 rows that get_stock_predictions and the 50-day average need
RowCounts == {0, 26, 50}

\* what the length of the series settles: on an empty series every iloc[-1] raises
\* and the momentum block is skipped; the 5-day momentum needs 5 rows, the RSI 14,
\* the 20-day windows 20, the 50-day average 50
FitsRows(data) ==
    /\ data.rows = 0 =>
          /\ data.rsi = Raise /\ data.macd = Raise /\ data.bb = Raise
          /\ data.ma = Raise /\ data.volume = Raise
    /\ data.momentum = Short <=> data.rows < 5
    /\ data.rows < 14 => data.rsi.kind # "value"
    /\ data.rows < 20 => data.bb.kind # "value"
    /\ data.rows < 20 => (data.ma.kind = "value" => data.ma.ma20 = <<>>)
    /\ data.rows < 50 => (data.ma.kind = "value" => data.ma.ma50 = <<>>)

DataInputs ==
    {data \in [rows : RowCounts, rsi : RsiInputs, macd : MacdInputs, bb : BollingerInputs,
               ma : MovingAverageInputs, volume : VolumeInputs, momentum : MomentumInputs] :
        FitsRows(data)}

InitScore ==
    /\ mem = DefaultMemory
    /\ today = 1
    /\ lastOp = Completed("none", "-", 0, NoReturn)
    /\ Idle
    /\ fnIn \in {<<data>> : data \in DataInputs}
    /\ fnOut = <<>>

ApplyScoreStock ==
    /\ fnOut = <<>>
    /\ fnOut' = <<score_stock(fnIn[1])>>
    /\ UNCHANGED <<mem, today, lastOp, pc, local, call, missed, lastSaver, fnIn>>

ApplyGetStockPredictions ==
    /\ fnOut = <<>>
    /\ fnOut' = <<get_stock_predictions(fnIn[1])>>
    /\ UNCHANGED <<mem, today, lastOp, pc, local, call, missed, lastSaver, fnIn>>

NextScore ==
    \/ ApplyScoreStock
    \/ ApplyGetStockPredictions

SpecScore == InitScore /\ [][NextScore]_vars

(***************************************************************************)
(* Properties of the scoring engine.                                       *)
(***************************************************************************)
\* the family raised, or its guard found it not computable
Failed(f, input) == input.kind # "value" \/ (f = "ma" /\ input.ma20 = <<>>)

AllFailed(data) == \A f \in FamilyNames : Failed(f, data[f])

ScoreStockReturned == fnOut # <<>> /\ fnOut[1].fn = "_score_stock"

\* C18 as claimed: for every number n of families used the confidence of _score_stock
\* is min(100, round(100 * n / 6)), rounded to the nearest integer.
C18_ConfidenceRounded ==
    ScoreStockReturned =>
        fnOut[1].confidence = Min(100, RoundDiv(100 * fnOut[1].indicators_used, 6))

\* C18 as amended: the confidence is 100 * n / 6 with the fraction cut off: the
\* largest whole percentage that is at most 100 * n / 6.
C18_ConfidenceCutOff ==
    ScoreStockReturned =>
        LET n == fnOut[1].indicators_used
            c == fnOut[1].confidence
        IN  /\ n \in 0..6
            /\ c \in 0..100
            /\ 6 * c <= 100 * n
            /\ 100 * n < 6 * (c + 1)

\* four families used give 66, where rounding would give 67
C18_Witness ==
    /\ ScoreStockReturned
    /\ fnOut[1].indicators_used = 4
    /\ fnOut[1].confidence = 66
    /\ RoundDiv(400, 6) = 67

C20_TotalFailureIsNoData ==
    (fnOut # <<>> /\ AllFailed(fnIn[1])) => fnOut[1].outcome = "not enough data"

\* the data of the strong-buy scenario: RSI 25, a fresh bullish MACD crossover with a
\* rising histogram, the price at the lower band, MA20 > MA50 with the price above
\* MA20, a volume ratio above 1.5 with the price up, a 5-day momentum of +4%
IsStrongBuyScenario(data) ==
    /\ data.rsi.kind = "value" /\ data.rsi.rsi_val = 25
    /\ data.macd.kind = "value"
    /\ data.macd.hist_val > 0 /\ data.macd.prev_hist <= 0
    /\ data.macd.has3 /\ data.macd.hist_trend > 0
    /\ data.bb.kind = "value" /\ data.bb.current = data.bb.lower
    /\ data.ma.kind = "value" /\ data.ma.ma20 # <<>> /\ data.ma.ma50 # <<>>
    /\ data.ma.ma20[1] > data.ma.ma50[1] /\ data.ma.current > data.ma.ma20[1]
    /\ data.volume.kind = "value" /\ data.volume.vol_ratio > 15 /\ data.volume.price_up
    /\ data.momentum.kind = "value" /\ data.momentum.mom_5d = 400

PositiveWords == {"gain", "profit"}
NegativeWords == {"loss", "crash"}
\* the characters that w.strip(".,!?;:") removes
Punctuation == {".", ",", "!", "?", ";", ":"}

Token(word, tail) == [word |-> word, tail |-> tail]

\* tokens of the texts: gain  gain!  loss.  the  gain's
Tokens == {Token("gain", ""), Token("gain", "!"), Token("loss", "."),
           Token("the", ""), Token("gain", "'s")}

\* w.strip(".,!?;:") in words: a tail that is not stripped leaves another word
Matches(token, words) ==
    token.word \in words /\ (token.tail = "" \/ token.tail \in Punctuation)

\* pos_count and neg_count of lines 54-55
CountTokens(text, words) == Cardinality({i \in 1..Len(text) : Matches(text[i], words)})

\* analyze_sentiment(text): the empty text returns at line 50
analyze_text(text) ==
    IF text = <<>> THEN 0
    ELSE analyze_sentiment(Headline(CountTokens(text, PositiveWords),
                                    CountTokens(text, NegativeWords)))

\* tokens of a text at most
MaxTokens == 3

Texts == UNION {[1..n -> Tokens] : n \in 0..MaxTokens}

InitSentiment ==
    /\ mem = DefaultMemory
    /\ today = 1
    /\ lastOp = Completed("none", "-", 0, NoReturn)
    /\ Idle
    /\ fnIn \in {<<text>> : text \in Texts}
    /\ fnOut = <<>>

ApplySentiment ==
    /\ fnOut = <<>>
    /\ fnOut' = <<analyze_text(fnIn[1])>>
    /\ UNCHANGED <<mem, today, lastOp, pc, local, call, missed, lastSaver, fnIn>>

NextSentiment == ApplySentiment

SpecSentiment == InitSentiment /\ [][NextSentiment]_vars

\* the tokens of a text that are a word of the set once the punctuation is stripped
Hits(text, words) ==
    {i \in 1..Len(text) : text[i].word \in words /\ text[i].tail \in Punctuation \cup {""}}

\* C23 as claimed: analyze_sentiment returns (pos - neg) / (pos + neg) for the counts
\* of the tokens matching the two word sets, a value within [-1, 1], and exactly 0
\* when the text is empty or no token matches.
C23_SentimentIsRatio ==
    fnOut # <<>> =>
        LET pos == Cardinality(Hits(fnIn[1], PositiveWords))
            neg == Cardinality(Hits(fnIn[1], NegativeWords))
        IN  /\ fnOut[1] >= -1000 /\ fnOut[1] <= 1000
            /\ pos + neg = 0 => fnOut[1] = 0
            /\ pos + neg > 0 => fnOut[1] * (pos + neg) = 1000 * (pos - neg)

\* C23 as amended: analyze_sentiment returns (pos - neg) / (pos + neg) rounded to 3
\* decimals: a value within [-1, 1] at most 0.0005 from the quotient, and exactly 0
\* when the text is empty or no token matches.
C23_SentimentIsRoundedRatio ==
    fnOut # <<>> =>
        LET pos == Cardinality(Hits(fnIn[1], PositiveWords))
            neg == Cardinality(Hits(fnIn[1], NegativeWords))
        IN  /\ fnOut[1] >= -1000 /\ fnOut[1] <= 1000
            /\ pos + neg = 0 => fnOut[1] = 0
            /\ pos + neg > 0 =>
                  2 * Abs(fnOut[1] * (pos + neg) - 1000 * (pos - neg)) <= pos + neg

\* two positive tokens and a negative one give 0.333
C23_Witness ==
    /\ fnOut = <<333>>
    /\ Cardinality(Hits(fnIn[1], PositiveWords)) = 2
    /\ Cardinality(Hits(fnIn[1], NegativeWords)) = 1

(***************************************************************************)
(* The memory file.  `mem` is the file: what reading it gives (kind), the   *)
(* store it holds when it is a JSON object (data), and whether it can be    *)
(* opened for writing.                                                      *)
(***************************************************************************)
File(kind, data, writable) == [kind |-> kind, data |-> data, writable |-> writable]

\* files that do not hold a JSON object: no file, open() or read() fails with an
\* OSError, text that is not JSON, JSON that is not an object, bytes that are not
\* text in the encoding of open(MEMORY_FILE, "r")
UnreadableKinds == {"missing", "io_error", "invalid_json", "not_dict", "undecodable"}

\* load_memory: json.load raises UnicodeDecodeError (a ValueError, neither a
\* JSONDecodeError nor an IOError) on undecodable bytes, and the except clause of
\* line 103 lets it through
load_memory(file) ==
    IF file.kind = "dict" THEN [raised |-> FALSE, memory |-> file.data]
    ELSE IF file.kind \in {"missing", "io_error", "invalid_json", "not_dict"}
    THEN [raised |-> FALSE, memory |-> DefaultMemory]
    ELSE [raised |-> TRUE, memory |-> DefaultMemory]

\* save_memory on the file: an IOError of open(MEMORY_FILE, "w") is printed and
\* the file stays as it was
save_file(file, memory) ==
    IF file.writable THEN File("dict", save_memory(file.data, memory), TRUE) ELSE file

\* the numbers of the summary text; accuracy in tenths of a percent
get_learning_summary(m) ==
    LET total == m.learning_stats.total_predictions
    IN  [total_stocks      |-> Cardinality(DOMAIN m.stock_history),
         total_data        |-> Cardinality(UNION {{<<s, i>> : i \in 1..Len(m.stock_history[s])} :
                                                  s \in DOMAIN m.stock_history}),
         total_news        |-> Len(m.news_sentiment),
         total_predictions |-> total,
         accuracy          |-> IF total > 0
                               THEN RoundDiv(1000 * m.learning_stats.correct_predictions, total)
                               ELSE 0,
         total_days        |-> m.learning_stats.total_days,
         last_updated      |-> m.learning_stats.last_updated]

\* what a call gives: it raised, or it returned `ret` and left the file as `file`
Outcome(raised, ret, file) == [raised |-> raised, ret |-> ret, file |-> file]

\* predict_movement on the file: lines 249, 261-262, 268-271 and PredictFrom
predict_movement_file(file, day, symbol) ==
    LET first == load_memory(file)
    IN  IF first.raised THEN Outcome(TRUE, NoReturn, file)
        ELSE IF ~HasRecentNews(RecentSentiments(first.memory, day))
        THEN Outcome(FALSE, Returned("NEUTRAL", 0, 0), file)
        ELSE LET learnt == IF symbol \in DOMAIN first.memory.correlations THEN file
                           ELSE save_file(file, learn_correlations(first.memory))
                 second == load_memory(learnt)
                 result == PredictFrom(second.memory, day, symbol)
             IN  IF second.raised THEN Outcome(TRUE, NoReturn, learnt)
                 ELSE Outcome(FALSE, result.ret,
                              IF result.saved THEN save_file(learnt, result.mem) ELSE learnt)

\* a public operation on the file
RunOn(file, c) ==
    LET loaded == load_memory(file)
        m == loaded.memory
    IN  IF c.op = "predict_movement" THEN predict_movement_file(file, c.day, c.symbol)
        ELSE IF loaded.raised THEN Outcome(TRUE, NoReturn, file)
        ELSE IF c.op = "record_stock_data"
        THEN Outcome(FALSE, NoReturn,
                     save_file(file, record_stock_data(m, c.day, c.symbol, c.price, c.change_pct)))
        ELSE IF c.op = "record_news_sentiment"
        THEN Outcome(FALSE, NoReturn, save_file(file, record_news_sentiment(m, c.day, c.headlines)))
        ELSE IF c.op = "learn_correlations"
        THEN Outcome(FALSE, learn_correlations(m).correlations,
                     save_file(file, learn_correlations(m)))
        ELSE IF c.op = "verify_past_predictions"
        THEN Outcome(FALSE, verify_past_predictions(m).learning_stats,
                     IF verify_past_predictions(m) # m
                     THEN save_file(file, verify_past_predictions(m)) ELSE file)
        ELSE Outcome(FALSE, get_learning_summary(m), file)

FileOps == {"record_stock_data", "record_news_sentiment", "learn_correlations",
            "predict_movement", "verify_past_predictions", "get_learning_summary"}

\* the calls of an operation with its arguments
CallsOf(op) ==
    IF op = "record_stock_data"
    THEN {Calling(op, s, p, ch, <<>>) : s \in Symbols, p \in PriceInputs, ch \in ChangeInputs}
    ELSE IF op = "record_news_sentiment"
    THEN {Calling(op, "-", 0, 0, hs) : hs \in HeadlineLists}
    ELSE IF op = "predict_movement"
    THEN {Calling(op, s, 0, 0, <<>>) : s \in Symbols}
    ELSE {Calling(op, "-", 0, 0, <<>>)}

InitFile ==
    /\ mem = File("dict", WarmStore, TRUE)
    /\ today = WarmDay
    /\ lastOp = Completed("none", "-", 0, NoReturn)
    /\ Idle
    /\ fnIn = <<>>
    /\ fnOut = <<>>

\* one public operation runs from its load to its return; `call` keeps the call and
\* lastOp what came of it
Operation(op) ==
    \E c \in CallsOf(op) :
        LET out == RunOn(mem, c)
        IN  /\ out.file.kind = "dict" => Len(out.file.data.news_sentiment) <= ConcMaxNews
            /\ mem' = out.file
            /\ call' = [call EXCEPT ![1] = c]
            /\ lastOp' = [op |-> op, raised |-> out.raised, ret |-> out.ret]
            /\ UNCHANGED <<today, pc, local, missed, lastSaver, fnIn, fnOut>>

FileOperation == \E op \in FileOps : Operation(op)

\* the file is lost or damaged from outside
Damage ==
    \E kind \in UnreadableKinds :
        /\ mem.kind # kind
        /\ mem' = File(kind, DefaultMemory, mem.writable)
        /\ UNCHANGED <<today, lastOp, Others>>

\* the file's directory or permissions change
Protect ==
    /\ mem' = [mem EXCEPT !.writable = ~mem.writable]
    /\ UNCHANGED <<today, lastOp, Others>>

NextFile ==
    \/ Tick
    \/ FileOperation
    \/ Damage
    \/ Protect

SpecFile == InitFile /\ [][NextFile]_vars

\* the file after a call that saves `memory` into it
Written(file, memory) == IF file.writable THEN File("dict", memory, TRUE) ELSE file

\* the call on the empty default store: its result, and the file it leaves
OnDefault(file, c) ==
    IF c.op = "record_stock_data"
    THEN [ret |-> NoReturn,
          file |-> Written(file, record_stock_data(DefaultMemory, c.day, c.symbol,
                                                   c.price, c.change_pct))]
    ELSE IF c.op = "record_news_sentiment"
    THEN [ret |-> NoReturn,
          file |-> Written(file, record_news_sentiment(DefaultMemory, c.day, c.headlines))]
    ELSE IF c.op = "learn_correlations"
    THEN [ret |-> EmptyDict, file |-> Written(file, DefaultMemory)]
    ELSE IF c.op = "predict_movement"
    THEN [ret |-> Returned("NEUTRAL", 0, 0), file |-> file]
    ELSE IF c.op = "verify_past_predictions"
    THEN [ret |-> DefaultMemory.learning_stats, file |-> file]
    ELSE [ret |-> get_learning_summary(DefaultMemory), file |-> file]

\* C24: a public operation that finds the store unreadable (missing, corrupt or not
\* a keyed structure) does not raise, returns what it returns on the empty default
\* store and leaves the file as that call would; one that cannot write the store
\* does not raise, returns its result and leaves the file as it was.
C24_UnreadableIsDefault ==
    [][FileOperation =>
          /\ ~lastOp'.raised
          /\ mem.kind \in UnreadableKinds =>
                /\ lastOp'.ret = OnDefault(mem, call'[1]).ret
                /\ mem' = OnDefault(mem, call'[1]).file
          /\ ~mem.writable => mem' = mem]_vars

\* C24 holds of the stores whose bytes are text: every call on a missing file, a
\* file that cannot be opened, invalid JSON or JSON that is not an object runs as on
\* the empty default store, and no call raises when the file cannot be written.
C24_DecodableIsDefault ==
    [][(FileOperation /\ mem.kind # "undecodable") =>
          /\ ~lastOp'.raised
          /\ mem.kind \in UnreadableKinds =>
                /\ lastOp'.ret = OnDefault(mem, call'[1]).ret
                /\ mem' = OnDefault(mem, call'[1]).file
          /\ ~mem.writable => mem' = mem]_vars

\* C25: after any sequence of record_stock_data calls every instrument's price
\* history holds at most the cap of entries (365 in the source), and a call that
\* records a new day leaves the most recent entries, as many as the cap allows, of
\* the old history followed by the new entry, in their order.
C25_HistoryWindow ==
    [][\A s \in DOMAIN mem'.stock_history :
          LET old == HistoryOf(mem, s)
              new == mem'.stock_history[s]
              kept == Len(new) - 1
              recorded == /\ today' = today
                          /\ lastOp'.op = "record_stock_data"
                          /\ lastOp'.symbol = s
                          /\ today \notin DatesOf(old)
          IN  /\ Len(new) <= HistoryCap
              /\ ~recorded => new = old
              /\ recorded =>
                    /\ Len(new) = Min(Len(old) + 1, HistoryCap)
                    /\ new[Len(new)].date = today
                    /\ \A i \in 1..kept : new[i] = old[Len(old) - kept + i]]_vars

\* a full history whose entry of the first day has been dropped for today's
C25_Witness ==
    /\ today > HistoryCap
    /\ lastOp.op = "record_stock_data"
    /\ lastOp.symbol = "A"
    /\ Len(HistoryOf(mem, "A")) = HistoryCap
    /\ \A i \in 1..HistoryCap : HistoryOf(mem, "A")[i].date = today - HistoryCap + i

(***************************************************************************)
(* predict_movement as a function of the Correlation record of its          *)
(* instrument and of the recent sentiments.                                 *)
(***************************************************************************)
\* the records learn_correlations stores for the scenario stores
LearntCorrelations ==
    {Correlation(m.stock_history["A"], m.news_sentiment) :
        m \in {ScenarioStore(nUp, nDown, nFlat, ups, downs) :
                  nUp \in ScenarioCounts, nDown \in ScenarioCounts,
                  nFlat \in ScenarioFlatCounts, ups \in UpProfiles, downs \in DownProfiles}}

InitReasoning ==
    /\ mem = DefaultMemory
    /\ today = 1
    /\ lastOp = Completed("none", "-", 0, NoReturn)
    /\ Idle
    /\ fnIn \in LearntCorrelations \X DirectionSentiments \X DirectionCounts
    /\ fnOut = <<>>

ApplyPrediction ==
    /\ fnOut = <<>>
    /\ fnOut' = <<Prediction(fnIn[1], fnIn[2], fnIn[3])>>
    /\ UNCHANGED <<mem, today, lastOp, pc, local, call, missed, lastSaver, fnIn>>

NextReasoning == ApplyPrediction

SpecReasoning == InitReasoning /\ [][NextReasoning]_vars

\* the numbers of a reasoning text other than the current news sentiment
CitedFromRecord(reasoning) ==
    [k \in (DOMAIN reasoning) \ {"current_sentiment"} |-> reasoning[k]]

\* C26 as claimed: two calls of predict_movement that see the same Correlation
\* record return the same direction, confidence and reasoning, whatever the recent
\* news of each.
C26_CorrelationAlone ==
    fnOut # <<>> =>
        \A total \in DirectionSentiments, n \in DirectionCounts :
            Prediction(fnIn[1], total, n) = fnOut[1]

\* C26 as amended: two calls that see the same Correlation record return the same
\* confidence and cite the same numbers but for the current news sentiment, and
\* return the same direction and reasoning when their recent sentiments have the
\* same mean.
C26_CorrelationAndSentiment ==
    fnOut # <<>> =>
        \A total \in DirectionSentiments, n \in DirectionCounts :
            LET other == Prediction(fnIn[1], total, n)
            IN  /\ other.confidence = fnOut[1].confidence
                /\ CitedFromRecord(other.reasoning) = CitedFromRecord(fnOut[1].reasoning)
                /\ total * fnIn[3] = fnIn[2] * n => other = fnOut[1]

\* a call that returns UP on a record on which other news would have given DOWN, and
\* the same news in two observations the same UP
C26_Witness ==
    /\ fnOut # <<>>
    /\ fnIn[1].data_points >= 3
    /\ fnIn[2] = 500 /\ fnIn[3] = 1
    /\ fnOut[1].direction = "UP"
    /\ Prediction(fnIn[1], -1000, 2).direction = "DOWN"
    /\ Prediction(fnIn[1], 1000, 2) = fnOut[1]

(***************************************************************************)
(* _calc_rsi and the value _score_stock reads from it, in exact arithmetic. *)
(* Closes are whole numbers; a ratio is the pair <<numerator, denominator>>.*)
(***************************************************************************)
\* window of the rolling means (period = 14 in the source)
RsiPeriod == 3
\* rows of the close series at most
MaxCloses == 4

ClosePrices == {1, 2, 3}

Inf == [kind |-> "inf"]

\* closes.diff(): the first difference is NaN, which neither where() takes for a
\* gain or a loss, so it counts as 0.0 in both series
Delta(closes, i) == IF i = 1 THEN 0 ELSE closes[i] - closes[i - 1]

\* a gain series that holds every difference, falls included
GainOfNet(closes, i) == Delta(closes, i)

\* delta.where(delta > 0, 0.0)
GainOf(closes, i) == IF Delta(closes, i) > 0 THEN Delta(closes, i) ELSE 0

\* -delta.where(delta < 0, 0.0)
LossOf(closes, i) == IF Delta(closes, i) < 0 THEN -Delta(closes, i) ELSE 0

\* the sum over the last window of the series: the rolling mean times the period
WindowSum(values) == SeqSum(LastN(values, RsiPeriod))

\* rs = gain / loss at the last row: x / 0.0 is inf for x > 0 and NaN for x = 0; the
\* means are NaN while the series has fewer rows than the window (min_periods)
RelativeStrength(closes) ==
    LET gain == WindowSum([i \in 1..Len(closes) |-> GainOf(closes, i)])
        loss == WindowSum([i \in 1..Len(closes) |-> LossOf(closes, i)])
    IN  IF Len(closes) < RsiPeriod THEN NaN
        ELSE IF loss = 0 THEN (IF gain = 0 THEN NaN ELSE Inf)
        ELSE [kind |-> "value", ratio |-> <<gain, loss>>]

\* rsi = 100 - (100 / (1 + rs)) at the last row, and rsi.iloc[-1] of an empty series
calc_rsi(closes) ==
    LET rs == RelativeStrength(closes)
    IN  IF closes = <<>> THEN Raise
        ELSE IF rs = NaN THEN NaN
        ELSE IF rs = Inf THEN [kind |-> "value", ratio |-> <<100, 1>>]
        ELSE LET one_plus == <<rs.ratio[2] + rs.ratio[1], rs.ratio[2]>>
                 quotient == <<100 * one_plus[2], one_plus[1]>>
             IN  [kind |-> "value",
                  ratio |-> <<100 * quotient[2] - quotient[1], quotient[2]>>]

CloseSeries == UNION {[1..n -> ClosePrices] : n \in 0..MaxCloses}

InitRsi ==
    /\ mem = DefaultMemory
    /\ today = 1
    /\ lastOp = Completed("none", "-", 0, NoReturn)
    /\ Idle
    /\ fnIn \in {<<closes>> : closes \in CloseSeries}
    /\ fnOut = <<>>

ApplyRsi ==
    /\ fnOut = <<>>
    /\ fnOut' = <<calc_rsi(fnIn[1])>>
    /\ UNCHANGED <<mem, today, lastOp, pc, local, call, missed, lastSaver, fnIn>>

NextRsi == ApplyRsi

SpecRsi == InitRsi /\ [][NextRsi]_vars

\* the rows of the last window but the first row of the series, whose difference
\* is not defined
WindowRows(closes) == {i \in 2..Len(closes) : i > Len(closes) - RsiPeriod}
Rises(closes) == {i \in WindowRows(closes) : closes[i] > closes[i - 1]}
Falls(closes) == {i \in WindowRows(closes) : closes[i] < closes[i - 1]}

\* C27: the RSI of a series of at least a window of observations whose average gain
\* and average loss are not both zero is a number within [0, 100], and it is 100
\* when the average loss is zero and the average gain positive; with fewer
\* observations or no rise and no fall in the window it is not a number.
C27_RsiWithin0And100 ==
    fnOut # <<>> /\ fnIn[1] # <<>> =>
        LET closes == fnIn[1]
            defined == Len(closes) >= RsiPeriod /\ Rises(closes) \cup Falls(closes) # {}
        IN  /\ defined <=> fnOut[1].kind = "value"
            /\ defined =>
                  /\ fnOut[1].ratio[2] > 0
                  /\ fnOut[1].ratio[1] >= 0
                  /\ fnOut[1].ratio[1] <= 100 * fnOut[1].ratio[2]
                  /\ Falls(closes) = {} => fnOut[1].ratio[1] = 100 * fnOut[1].ratio[2]
                  /\ Rises(closes) = {} => fnOut[1].ratio[1] = 0

\* a series that only rises over its last window, whose RSI is 100
C27_Witness ==
    /\ fnOut # <<>>
    /\ Len(fnIn[1]) = MaxCloses
    /\ Rises(fnIn[1]) # {} /\ Falls(fnIn[1]) = {}
    /\ fnOut[1] = [kind |-> "value", ratio |-> <<100, 1>>]

(***************************************************************************)
(* utils_memory.is_duplicate.  Here `mem` is the store of seen identifiers: *)
(* `seen` maps each category the store has to its list, last_cleanup is the *)
(* day of the last cleanup (0 for None).                                    *)
(***************************************************************************)
\* identifiers a category keeps at most (500 in the source)
SeenCap == 3
\* identifiers a category keeps through a cleanup (200 in the source)
CleanupCap == 2
\* identifiers of news items
MaxIds == 4

SeenCategories == {"news", "jobs"}
Identifiers == [news |-> 1..MaxIds, jobs |-> {1}]

\* {"news": [], "stocks": [], "last_cleanup": None}
DefaultSeen ==
    [seen |-> Put(Put(EmptyDict, "news", <<>>), "stocks", <<>>), last_cleanup |-> 0]

\* a cleanup that keeps the oldest entries
CleanedOldest(list) == IF Len(list) <= CleanupCap THEN list ELSE SubSeq(list, 1, CleanupCap)

\* memory[cat][-200:]
Cleaned(list) == LastN(list, CleanupCap)

SeenIn(m, category) ==
    IF category \in DOMAIN m.seen
    THEN {m.seen[category][i] : i \in 1..Len(m.seen[category])} ELSE {}

\* is_duplicate(category, identifier) on the store m on the day `day`
is_duplicate(m, day, category, identifier) ==
    IF identifier \in SeenIn(m, category)
    THEN [mem |-> m, ret |-> TRUE]
    ELSE LET list == IF category \in DOMAIN m.seen THEN m.seen[category] ELSE <<>>
             recorded == Put(m.seen, category, LastN(Append(list, identifier), SeenCap))
         IN  IF m.last_cleanup # day
             THEN [mem |-> [seen |-> [c \in DOMAIN recorded |-> Cleaned(recorded[c])],
                            last_cleanup |-> day],
                   ret |-> FALSE]
             ELSE [mem |-> [m EXCEPT !.seen = recorded], ret |-> FALSE]

InitDuplicate ==
    /\ mem = DefaultSeen
    /\ today = 1
    /\ lastOp = [op |-> "none", category |-> "-", identifier |-> 0, ret |-> FALSE]
    /\ Idle
    /\ fnIn = <<>>
    /\ fnOut = <<>>

IsDuplicate ==
    \E category \in SeenCategories :
        \E identifier \in Identifiers[category] :
            LET result == is_duplicate(mem, today, category, identifier)
            IN  /\ mem' = result.mem
                /\ lastOp' = [op |-> "is_duplicate", category |-> category,
                              identifier |-> identifier, ret |-> result.ret]
                /\ UNCHANGED <<today, Others>>

NextDuplicate ==
    \/ Tick
    \/ IsDuplicate

SpecDuplicate == InitDuplicate /\ [][NextDuplicate]_vars

ListOf(m, category) == IF category \in DOMAIN m.seen THEN m.seen[category] ELSE <<>>

\* `list` is the last Len(list) entries of `all`, in their order
IsTailOf(list, all) ==
    /\ Len(list) <= Len(all)
    /\ \A i \in 1..Len(list) : list[i] = all[Len(all) - Len(list) + i]

\* C28: is_duplicate(category, id) returns False and records id when the category
\* does not hold it, and True, leaving the store as it was, when it does; recording
\* a new identifier keeps, in every category, the identifiers recorded last, in their
\* order and at least as many as the cleanup keeps (200 in the source), so that an
\* identifier stays known while fewer than that many others have been recorded in
\* its category since.
C28_DuplicateMemory ==
    [][today' = today =>
          LET category == lastOp'.category
              id == lastOp'.identifier
          IN  /\ lastOp'.ret = (id \in SeenIn(mem, category))
              /\ lastOp'.ret => mem' = mem
              /\ ~lastOp'.ret =>
                    /\ ListOf(mem', category)[Len(ListOf(mem', category))] = id
                    /\ \A c \in DOMAIN mem'.seen :
                          LET all == IF c = category THEN Append(ListOf(mem, c), id)
                                     ELSE ListOf(mem, c)
                          IN  /\ IsTailOf(mem'.seen[c], all)
                              /\ Len(mem'.seen[c]) >= Min(Len(all), CleanupCap)]_vars

\* an identifier found known after as many others as a cleanup lets it outlast
C28_Witness ==
    /\ lastOp.op = "is_duplicate"
    /\ lastOp.category = "news"
    /\ lastOp.ret
    /\ Len(ListOf(mem, "news")) >= CleanupCap
    /\ ListOf(mem, "news")[Len(ListOf(mem, "news")) - CleanupCap + 1] = lastOp.identifier
    /\ mem.last_cleanup = today /\ today > 1

(***************************************************************************)
(* The record learn_correlations computes for one instrument, over          *)
(* histories whose changes lie on and around the +0.5 and -0.5 thresholds.  *)
(***************************************************************************)
\* price points of a history at most
MaxHistory == 4

\* change_pct arguments: -0.501, -0.5, 0, +0.5, +0.501 percent
BucketChanges == {-5010, -5000, 0, 5000, 5010}

\* histories of one point a day from day 1 on
BucketHistories ==
    UNION {{[i \in 1..n |-> PricePoint(i, WarmPrice, changes[i])] :
               changes \in [1..n -> BucketChanges]} : n \in 3..MaxHistory}

\* one observation on each day of `days`
NewsOn(days) ==
    LET Sorted == SelectIdx([d \in 1..MaxHistory |-> d \in days], 1, MaxHistory)
    IN  [k \in 1..Len(Sorted) |-> NewsObservation(Sorted[k], Headline(1, 0))]

InitBucket ==
    /\ mem = DefaultMemory
    /\ today = 1
    /\ lastOp = Completed("none", "-", 0, NoReturn)
    /\ Idle
    /\ fnIn \in {<<history, NewsOn(days)>> :
                    history \in BucketHistories, days \in SUBSET (1..MaxHistory)}
    /\ fnOut = <<>>

ApplyCorrelation ==
    /\ fnOut = <<>>
    /\ fnOut' = <<Correlation(fnIn[1], fnIn[2])>>
    /\ UNCHANGED <<mem, today, lastOp, pc, local, call, missed, lastSaver, fnIn>>

NextBucket == ApplyCorrelation

SpecBucket == InitBucket /\ [][NextBucket]_vars

\* the consecutive pairs (history[i-1], history[i]) with news on one of their dates
PairsWithNews(history, news) ==
    {i \in 2..Len(history) :
        \E k \in 1..Len(news) : news[k].date \in {history[i - 1].date, history[i].date}}

C30_ConfidenceFormula ==
    fnOut # <<>> =>
        LET data_points == fnIn[1]
            impact_score == fnIn[2]
            \* fifteen times the unrounded value, in tenths of a percent
            scaled == 100 * (IF data_points < 60 THEN data_points ELSE 60)
                      + 18 * (IF impact_score < 500 THEN impact_score ELSE 500)
        IN  /\ \E rounded \in 0..1000 :
                  /\ 2 * Abs(15 * rounded - scaled) <= 15
                  /\ fnOut[1] = IF rounded > 850 THEN 850 ELSE rounded
            /\ Confidence(data_points + 1, impact_score) >= fnOut[1]
            /\ Confidence(data_points, impact_score + 1) >= fnOut[1]

\* 30 data points and an impact score of 0.25 give 50.0, and more of either gives more
C30_Witness ==
    /\ fnIn = <<30, 250>>
    /\ fnOut = <<500>>
    /\ Confidence(31, 250) > 500
    /\ Confidence(30, 251) > 500

\* C31: predict_movement runs a learning pass exactly when recent news exists and
\* the instrument has no Correlation: the call then leaves the correlations section
\* as one pass over the store it found makes it, and returns a direction and logs it
\* when the instrument has at least 3 price points (LEARNING when it has fewer); in
\* every other case the call leaves the correlations section unchanged.
C31_LearnsOnceWhenUnknown ==
    [][PredictMovement =>
          LET symbol == lastOp'.symbol
              pass == /\ NewsOfLastDay(mem, today) # {}
                      /\ symbol \notin DOMAIN mem.correlations
              learnt == {s \in DOMAIN mem.stock_history : Len(mem.stock_history[s]) >= 3}
          IN  /\ pass =>
                    /\ DOMAIN mem'.correlations = (DOMAIN mem.correlations) \cup learnt
                    /\ \A s \in learnt :
                          mem'.correlations[s] = Correlation(mem.stock_history[s],
                                                             mem.news_sentiment)
                    /\ \A s \in (DOMAIN mem.correlations) \ learnt :
                          mem'.correlations[s] = mem.correlations[s]
                    /\ IF symbol \in learnt
                       THEN /\ lastOp'.ret.direction \in Directions
                            /\ Len(mem'.predictions_log) > 0
                            /\ mem'.predictions_log[Len(mem'.predictions_log)].date = today
                       ELSE /\ lastOp'.ret.direction = "LEARNING"
                            /\ mem'.predictions_log = mem.predictions_log
              /\ ~pass => mem'.correlations = mem.correlations]_vars

\* a call has returned a direction for an instrument of 21 price points, and the
\* store holds the Correlation of its history and the news
C31_Witness ==
    /\ lastOp.op = "predict_movement"
    /\ lastOp.ret.direction \in Directions
    /\ lastOp.ret.data_points = 21
    /\ "A" \in DOMAIN mem.correlations
    /\ mem.correlations["A"] = Correlation(mem.stock_history["A"], mem.news_sentiment)
    /\ Len(mem.predictions_log) = 1

\* the weights of the docstring of _score_stock
StatedWeights == [rsi |-> 20, macd |-> 25, bb |-> 15, ma |-> 20, volume |-> 10, momentum |-> 10]

\* the most a family adds or takes: the MACD block adds 5 for the histogram momentum
\* to the 25 of a crossover
FamilyLimits == [StatedWeights EXCEPT !.macd = 30]

MaxClose == 4

VolumeRatios == {0, 5, 10, 15, 16, 20, 30}

\* the closes of the last rows: one row, or the prior and the latest
LastCloses == UNION {[1..n -> 1..MaxClose] : n \in 1..2}

\* lines 101-110 of _analyze_volume: the status
analyze_volume(vol_ratio, closes) ==
    LET price_change == IF Len(closes) >= 2
                        THEN closes[Len(closes)] - closes[Len(closes) - 1] ELSE 0
    IN  IF vol_ratio > 15 /\ price_change > 0 THEN "Heavy Buying"
        ELSE IF vol_ratio > 15 /\ price_change < 0 THEN "Heavy Selling"
        ELSE IF vol_ratio > 10 THEN "Above Average"
        ELSE "Below Average"

\* line 269: price_up
PriceUp(closes) ==
    IF Len(closes) >= 2 THEN closes[Len(closes)] > closes[Len(closes) - 1] ELSE FALSE

\* lines 264-274: the status and what the block adds to the score
volume_block(vol_ratio, closes) ==
    [status |-> analyze_volume(vol_ratio, closes),
     family |-> VolumeFamily([kind |-> "value", vol_ratio |-> vol_ratio,
                              price_up |-> PriceUp(closes)])]

\* the data of one row has a volume ratio of 1.0, or of 1.0 by default when the
\* volume is 0
InitVolume ==
    /\ mem = DefaultMemory
    /\ today = 1
    /\ lastOp = Completed("none", "-", 0, NoReturn)
    /\ Idle
    /\ fnIn \in {in \in VolumeRatios \X LastCloses : Len(in[2]) = 1 => in[1] = 10}
    /\ fnOut = <<>>

ApplyVolume ==
    /\ fnOut = <<>>
    /\ fnOut' = <<volume_block(fnIn[1], fnIn[2])>>
    /\ UNCHANGED <<mem, today, lastOp, pc, local, call, missed, lastSaver, fnIn>>

NextVolume == ApplyVolume

SpecVolume == InitVolume /\ [][NextVolume]_vars

\* C33: the volume family adds +10 exactly when the volume ratio is above 1.5 and
\* the latest close is above the prior close, -10 exactly when the ratio is above
\* 1.5 and the latest close is below the prior close, and 0 in every other case, an
\* unchanged close included, so that the score agrees with the Heavy Buying / Heavy
\* Selling classification.
C33_VolumeAgreesWithStatus ==
    fnOut # <<>> =>
        LET closes == fnIn[2]
            high == fnIn[1] > 15
            above == Len(closes) = 2 /\ closes[2] > closes[1]
            below == Len(closes) = 2 /\ closes[2] < closes[1]
            points == fnOut[1].family.points
        IN  /\ points = (IF high /\ above THEN 10 ELSE IF high /\ below THEN -10 ELSE 0)
            /\ points = 10 <=> fnOut[1].status = "Heavy Buying"
            /\ points = -10 <=> fnOut[1].status = "Heavy Selling"

\* C34: a record_stock_data call for an instrument that already has an entry of the
\* day leaves that instrument's history unchanged, the first price and change of the
\* day kept, and no record_stock_data call changes news_sentiment, correlations,
\* predictions_log or the history of another instrument.
C34_RecordFrame ==
    [][RecordStockData =>
          LET symbol == lastOp'.symbol
          IN  /\ today \in DatesOf(HistoryOf(mem, symbol)) =>
                    mem'.stock_history = mem.stock_history
              /\ \A s \in (DOMAIN mem.stock_history) \ {symbol} :
                    mem'.stock_history[s] = mem.stock_history[s]
              /\ mem'.news_sentiment = mem.news_sentiment
              /\ mem'.correlations = mem.correlations
              /\ mem'.predictions_log = mem.predictions_log]_vars

\* a second call of the day has come with another change than the entry of the day
\* holds, on a store that has news, a Correlation and a logged prediction
C34_Witness ==
    /\ lastOp.op = "record_stock_data"
    /\ \E i \in 1..Len(HistoryOf(mem, lastOp.symbol)) :
          /\ HistoryOf(mem, lastOp.symbol)[i].date = today
          /\ HistoryOf(mem, lastOp.symbol)[i].change_pct # lastOp.change_pct
    /\ mem.news_sentiment # <<>>
    /\ lastOp.symbol \in DOMAIN mem.correlations
    /\ mem.predictions_log # <<>>

(***************************************************************************)
(* verify_past_predictions on a store of one logged prediction and the      *)
(* price point of the day after it.                                         *)
(***************************************************************************)
\* the largest change of the later price point, in thousandths of a percent
MaxChange == 10

\* the store: a prediction of day 1 and the price point of day 2
GradingStore(direction, change_pct) ==
    [DefaultMemory EXCEPT
        !.stock_history = Put(EmptyDict, "A", <<PricePoint(2, WarmPrice, 10 * change_pct)>>),
        !.predictions_log = <<PredictionRecord(1, "A", direction, 500, 0, 1)>>]

InitGrade ==
    /\ mem = DefaultMemory
    /\ today = 1
    /\ lastOp = Completed("none", "-", 0, NoReturn)
    /\ Idle
    /\ fnIn \in Directions \X (-MaxChange..MaxChange)
    /\ fnOut = <<>>

ApplyVerify ==
    /\ fnOut = <<>>
    /\ fnOut' = <<verify_past_predictions(GradingStore(fnIn[1], fnIn[2]))>>
    /\ UNCHANGED <<mem, today, lastOp, pc, local, call, missed, lastSaver, fnIn>>

NextGrade == ApplyVerify

SpecGrade == InitGrade /\ [][NextGrade]_vars

\* C35: for every verified prediction record, correct is true exactly when its
\* predicted_direction equals its recorded actual_direction.
C35_CorrectIffDirectionsEqual ==
    fnOut # <<>> =>
        \A i \in 1..Len(fnOut[1].predictions_log) :
            LET pred == fnOut[1].predictions_log[i]
            IN  pred.verified =>
                    (pred.correct <=> pred.predicted_direction = pred.actual_direction)

\* C36: predict_movement returns DOWN only when the instrument's Correlation has at
\* least one down-day sample, and UP only when it has at least one up-day sample.
C36_DirectionHasSamples ==
    fnOut # <<>> =>
        /\ fnOut[1].direction = "DOWN" => fnIn[1].down_days > 0
        /\ fnOut[1].direction = "UP" => fnIn[1].up_days > 0

(***************************************************************************)
(* The file src/memory.json, which utils_memory and stock_learner both      *)
(* name: `mem` holds the learner's sections (learner), the lists of seen    *)
(* identifiers by category (seen) and last_cleanup.                         *)
(***************************************************************************)
\* news observations the shared file holds at most
SharedMaxNews == 3

SharedIdentifiers == {1, 2}

\* is_duplicate on the shared file: the cleanup of lines 58-60 cuts every top-level
\* list of the file, and news_sentiment and predictions_log are such lists
is_duplicate_shared(file, day, category, identifier) ==
    LET own == is_duplicate([seen |-> file.seen, last_cleanup |-> file.last_cleanup],
                            day, category, identifier)
        cleanup == ~own.ret /\ file.last_cleanup # day
    IN  [file |-> [seen |-> own.mem.seen,
                   last_cleanup |-> own.mem.last_cleanup,
                   learner |-> IF cleanup
                               THEN [file.learner EXCEPT
                                        !.news_sentiment = Cleaned(@),
                                        !.predictions_log = Cleaned(@)]
                               ELSE file.learner],
         ret |-> own.ret]

InitShared ==
    /\ mem = [seen |-> DefaultSeen.seen, last_cleanup |-> DefaultSeen.last_cleanup,
              learner |-> DefaultMemory]
    /\ today = 1
    /\ lastOp = [op |-> "none", category |-> "-", identifier |-> 0, ret |-> FALSE]
    /\ Idle
    /\ fnIn = <<>>
    /\ fnOut = <<>>

SharedIsDuplicate ==
    \E identifier \in SharedIdentifiers :
        LET result == is_duplicate_shared(mem, today, "news", identifier)
        IN  /\ mem' = result.file
            /\ lastOp' = [op |-> "is_duplicate", category |-> "news",
                          identifier |-> identifier, ret |-> result.ret]
            /\ UNCHANGED <<today, Others>>

\* the learner loads the whole file and saves it back with its own sections changed
SharedRecordNews ==
    \E headlines \in HeadlineLists :
        LET learner == record_news_sentiment(mem.learner, today, headlines)
        IN  /\ Len(learner.news_sentiment) <= SharedMaxNews
            /\ mem' = [mem EXCEPT !.learner = learner]
            /\ lastOp' = [op |-> "record_news_sentiment", category |-> "-",
                          identifier |-> 0, ret |-> FALSE]
            /\ UNCHANGED <<today, Others>>

NextShared ==
    \/ Tick
    \/ SharedIsDuplicate
    \/ SharedRecordNews

SpecShared == InitShared /\ [][NextShared]_vars

\* C37: no is_duplicate call changes the learner's stock_history, news_sentiment,
\* correlations or predictions_log in the file they share; the call changes only
\* the list of its own category and last_cleanup.
C37_DuplicateFrame ==
    [][SharedIsDuplicate =>
          /\ mem'.learner.stock_history = mem.learner.stock_history
          /\ mem'.learner.news_sentiment = mem.learner.news_sentiment
          /\ mem'.learner.correlations = mem.learner.correlations
          /\ mem'.learner.predictions_log = mem.learner.predictions_log
          /\ \A c \in (DOMAIN mem.seen) \ {lastOp'.category} : mem'.seen[c] = mem.seen[c]]_vars

(***************************************************************************)
(* Repeated predictions on a store whose log has room for several records.  *)
(***************************************************************************)
\* prediction records the log of this store keeps (500 in the source)
RepeatLogCap == 3

\* predict_movement with the log cut to `cap` records: the record the call appends
\* is the one it leaves in an empty log
predict_movement_within(m, day, symbol, cap) ==
    LET fresh == predict_movement([m EXCEPT !.predictions_log = <<>>], day, symbol)
        log == IF fresh.saved
               THEN LastN(m.predictions_log \o fresh.mem.predictions_log, cap)
               ELSE m.predictions_log
    IN  [fresh EXCEPT !.mem = [fresh.mem EXCEPT !.predictions_log = log]]

InitRepeat ==
    /\ mem = WarmStore
    /\ today = WarmDay
    /\ lastOp = Completed("none", "-", 0, NoReturn)
    /\ Idle
    /\ fnIn = <<>>
    /\ fnOut = <<>>

RepeatPredictMovement ==
    \E symbol \in Symbols :
        LET result == predict_movement_within(mem, today, symbol, RepeatLogCap)
        IN  /\ mem' = result.mem
            /\ lastOp' = Completed("predict_movement", symbol, 0, result.ret)
            /\ UNCHANGED <<today, Others>>

NextRepeat ==
    \/ Tick
    \/ RecordStockData
    \/ RepeatPredictMovement
    \/ VerifyPastPredictions

SpecRepeat == InitRepeat /\ [][NextRepeat]_vars

\* C38: the predictions log holds at most one record per instrument and date, so
\* that one day's outcome is counted at most once per instrument in LearningStats.
C38_OneRecordPerDay ==
    /\ \A i, j \in 1..Len(Log) :
          (Log[i].symbol = Log[j].symbol /\ Log[i].date = Log[j].date) => i = j
    /\ \A s \in Symbols, day \in Days :
          Cardinality({i \in VerifiedIn(Log) : Log[i].symbol = s /\ Log[i].date = day}) <= 1

\* C39: under any interleaving of the load and save steps of concurrent
\* record_stock_data calls, no instrument's history in the saved store holds two
\* entries of the same date.
C39_SavedDatesUnique ==
    \A s \in DOMAIN mem.stock_history :
        Cardinality(DatesOf(mem.stock_history[s])) = Len(mem.stock_history[s])

\* two record_stock_data calls for the same instrument have run between each
\* other's load and save with different changes: the later save has replaced the
\* price point of the earlier one, and the instrument has one entry of the day
C39_Witness ==
    /\ \A c \in Callers : pc[c] = "idle"
    /\ \E c \in Callers :
          /\ lastSaver = c
          /\ missed[c].prices # {}
          /\ missed[c].news = {}
          /\ missed[c].predictions = {}
    /\ "B" \in DOMAIN mem.stock_history
    /\ Len(mem.stock_history["B"]) = 1
    /\ mem.stock_history["B"][1].date = today

=============================================================================
